---------------------------- MODULE Spec2Model ----------------------------
(***************************************************************************)
(* A model of umbrella's dependency injector (lib/injector.js), of the     *)
(* injection registry it reads (lib/utilities.js) and of the ordered       *)
(* initializer pipeline built on them (lib/initializer.js).                *)
(*                                                                         *)
(* JavaScript values are strings: a registry value is a token such as      *)
(* "v_a", the falsy number 0 is "zero", a missing property is              *)
(* "undefined".  A callable is a record [name, params, body]: its declared *)
(* parameter names and what its body does when it runs.                    *)
(***************************************************************************)
EXTENDS Integers, Sequences, FiniteSets, TLC

(* ------------------------------ bounds -------------------------------- *)
MaxParams == 3     \* longest parameter list of an injected callable
MaxArgs == 3       \* most arguments handed to a wrapper in one call
MaxCalls == 2      \* wrapper calls followed per injection
MaxSteps == 3      \* most descriptors the ordering producer returns
MaxDepSteps == 1   \* longest descriptor list followed with `dependencies` fields
MaxDepth == 1      \* deepest nesting of sub-directories below a built directory

(* ------------------------------ values -------------------------------- *)
NoVal == "undefined"
Context == "app"                 \* the injector's context object
\* F applied to the value of v, which is computed once
Bind(v, F(_)) == CHOOSE y \in {F(x) : x \in {v}} : TRUE

NoErr == [kind |-> "none", who |-> ""]
Err(k, w) == [kind |-> k, who |-> w]

\* JavaScript truthiness of a value, as tested by `if(injectComponents[..])`
Falsy == {"undefined", "null", "zero", "false", "empty"}
Truthy(v) == v \notin Falsy

\* Properties every plain object inherits from Object.prototype
ProtoNames == {"toString", "constructor"}
ProtoVal == "protoFn"

\* '$' + key for the internal components of umbrella.js
Dollar(k) == "$" \o k

(* ----------------------- lib/utilities.js ----------------------------- *)
\* The text func.toString() gives, as its tokens: the keyword, blanks and
\* line breaks, the function's own name when it has one, parentheses,
\* commas and parameter names.  A callable that carries a `layout` is written
\* as the layout says:
\*   fname : the name between `function` and `(` ("" for none)
\*   lead  : blanks before `function`
\*   gap   : blanks between `function` and what follows it
\*   style : "tight" (a,b), "spaced" ( a , b ) or "lines" (a line per parameter)
\* every other callable of the model is written function(a, b){}.
PlainLayout == [fname |-> "", lead |-> <<>>, gap |-> <<>>, style |-> "plain"]
LayoutOf(func) == IF "layout" \in DOMAIN func THEN func.layout ELSE PlainLayout
RECURSIVE ParameterText(_, _, _)
ParameterText(params, k, style) ==
  IF k > Len(params) THEN <<>>
  ELSE (CASE style = "spaced" -> <<" ", params[k], " ">>
          [] style = "lines" -> <<"\n", " ", params[k]>>
          [] OTHER -> <<params[k]>>)
       \o (IF k < Len(params)
             THEN (IF style = "plain" THEN <<",", " ">> ELSE <<",">>)
             ELSE IF style = "lines" THEN <<"\n">> ELSE <<>>)
       \o ParameterText(params, k + 1, style)
toString(func) ==
  LET l == LayoutOf(func) IN
  l.lead \o <<"function">> \o l.gap \o (IF l.fname = "" THEN <<>> ELSE <<l.fname>>)
    \o <<"(">>
    \o (IF func.params = <<>> /\ l.style = "spaced" THEN <<" ">>
        ELSE ParameterText(func.params, 1, l.style))
    \o <<")", "{", "}">>

\* \s of the regular expression, and what trim removes
IsSpace(t) == t \in {" ", "\n"}
\* The first position from i on that holds no white space
RECURSIVE SkipSpace(_, _)
SkipSpace(text, i) ==
  IF i <= Len(text) /\ IsSpace(text[i]) THEN SkipSpace(text, i + 1) ELSE i
\* The first position from i on that holds `)` or a line break, which `.`
\* does not match
RECURSIVE GroupEnd(_, _)
GroupEnd(text, i) ==
  IF i > Len(text) \/ text[i] \in {")", "\n"} THEN i ELSE GroupEnd(text, i + 1)
\* text.match(/^\s*function\s*?\((.*?)\)/): null, or the text of group 1
Match(text) ==
  LET f == SkipSpace(text, 1)
      p == SkipSpace(text, f + 1)
      e == GroupEnd(text, p + 1)
      null == [matched |-> FALSE, group |-> <<>>]
  IN IF f > Len(text) \/ text[f] # "function" THEN null
     ELSE IF p > Len(text) \/ text[p] # "(" THEN null
     ELSE IF e > Len(text) \/ text[e] # ")" THEN null
     ELSE [matched |-> TRUE, group |-> SubSeq(text, p + 1, e - 1)]
\* String.prototype.trim
RECURSIVE TrimLeft(_), TrimRight(_)
TrimLeft(q) == IF q # <<>> /\ IsSpace(Head(q)) THEN TrimLeft(Tail(q)) ELSE q
TrimRight(q) ==
  IF q # <<>> /\ IsSpace(q[Len(q)]) THEN TrimRight(SubSeq(q, 1, Len(q) - 1)) ELSE q
Trim(q) == TrimLeft(TrimRight(q))
\* String.prototype.split(','): the pieces between the commas
RECURSIVE Split(_, _)
Split(q, piece) ==
  IF q = <<>> THEN <<piece>>
  ELSE IF Head(q) = "," THEN <<piece>> \o Split(Tail(q), <<>>)
  ELSE Split(Tail(q), Append(piece, Head(q)))
\* The string a piece of text is
RECURSIVE Chars(_)
Chars(q) == IF q = <<>> THEN "" ELSE Head(q) \o Chars(Tail(q))

\* getFunctionParameters throws a TypeError when match gives null: null[1]
getFunctionParametersThrows(func) == ~Match(toString(func)).matched

\* getFunctionParameters: group 1 of the match, trimmed; [] when it is
\* empty, else its pieces between commas, each trimmed
getFunctionParameters(func) ==
  LET argString == Trim(Match(toString(func)).group) IN
  IF Len(argString) = 0 THEN <<>>
  ELSE LET pieces == Split(argString, <<>>) IN
       [k \in 1..Len(pieces) |-> Chars(Trim(pieces[k]))]

\* Object.defineProperty(obj, '$' + key, ..) is reached for the internal
\* keys for which typeof obj['$' + key] is 'undefined'; it throws a
\* TypeError when obj already has that property, which the loop over the
\* external keys then defined as not configurable.
Redefined(externalComponents, internalComponents) ==
  {k \in DOMAIN internalComponents :
     /\ Dollar(k) \in DOMAIN externalComponents
     /\ externalComponents[Dollar(k)] = "undefined"}

\* The object createInjectionComponents returns: one getter per external
\* key, one per '$'-prefixed internal key that no external key defines.
\* It is kept as the pair of the two sources the getters read; threw tells
\* that the call did not return but threw err.
createInjectionComponents(externalComponents, internalComponents) ==
  IF Redefined(externalComponents, internalComponents) # {}
    THEN [ext |-> externalComponents, int |-> internalComponents, threw |-> TRUE,
          err |-> Err("redefine",
                      CHOOSE k \in Redefined(externalComponents, internalComponents) : TRUE)]
    ELSE [ext |-> externalComponents, int |-> internalComponents,
          threw |-> FALSE, err |-> NoErr]

\* A registry whose internal getter hands out the unpopulated slot as it is
RegGetSilent(obj, name) ==
  IF name \in DOMAIN obj.ext
    THEN [threw |-> FALSE, val |-> obj.ext[name], err |-> NoErr]
  ELSE IF \E k \in DOMAIN obj.int : Dollar(k) = name
    THEN LET k == CHOOSE kk \in DOMAIN obj.int : Dollar(kk) = name IN
         [threw |-> FALSE, val |-> obj.int[k], err |-> NoErr]
  ELSE IF name \in ProtoNames
    THEN [threw |-> FALSE, val |-> ProtoVal, err |-> NoErr]
  ELSE [threw |-> FALSE, val |-> NoVal, err |-> NoErr]

\* Reading property `name` of the registry object: runs the getter.
\* threw = TRUE is the 'accessed too early' exception of the internal getter.
RegGet(obj, name) ==
  IF name \in DOMAIN obj.ext
    THEN [threw |-> FALSE, val |-> obj.ext[name], err |-> NoErr]
  ELSE IF \E k \in DOMAIN obj.int : Dollar(k) = name
    THEN LET k == CHOOSE kk \in DOMAIN obj.int : Dollar(kk) = name IN
         IF obj.int[k] = "null"
           THEN [threw |-> TRUE, val |-> NoVal, err |-> Err("tooEarly", k)]
           ELSE [threw |-> FALSE, val |-> obj.int[k], err |-> NoErr]
  ELSE IF name \in ProtoNames
    THEN [threw |-> FALSE, val |-> ProtoVal, err |-> NoErr]
  ELSE [threw |-> FALSE, val |-> NoVal, err |-> NoErr]

(* ------------------------- lib/injector.js ---------------------------- *)
\* What running a callable's body does: func.apply(thisArg, args).
\*   body "ret"     returns a value that records its receiver and arguments
\*   body "throw"   throws
\*   body "doneOk"  calls its last argument with no error, then returns
\*   body "doneErr" calls its last argument with an error, then returns
\*   body "later"   returns; its last argument is called in a later turn
\* `done` tells what the body does with its last argument when that is the
\* pipeline's step callback (CallbackTok).  Calling a last argument that is
\* no function is a TypeError.
NoCall == [this |-> "none", args |-> <<>>]
CallbackTok == "callback"
Apply(func, thisArg, args) ==
  LET hasCb == Len(args) > 0 /\ args[Len(args)] = CallbackTok
      here == [this |-> thisArg, args |-> args]
      ok == [threw |-> FALSE, ret |-> here, err |-> NoErr, done |-> "no"]
  IN CASE func.body = "ret" -> ok
       [] func.body = "throw" ->
            [ok EXCEPT !.threw = TRUE, !.ret = NoCall, !.err = Err("body", func.name)]
       [] func.body \in {"doneOk", "doneErr"} ->
            IF hasCb THEN [ok EXCEPT !.done = IF func.body = "doneOk" THEN "ok" ELSE "err"]
            ELSE [ok EXCEPT !.threw = TRUE, !.ret = NoCall,
                            !.err = Err("notAFunction", func.name)]
       [] OTHER -> IF hasCb THEN [ok EXCEPT !.done = "later"] ELSE ok

(* ---------------------------- lib/util.js ----------------------------- *)
\* [].slice.call(args, n)
Slice(args, n) == SubSeq(args, n + 1, Len(args))
\* objectProxy(object, func, x1, .., xn): the function it returns closes
\* over `arguments`, here <<object, func, x1, .., xn>>
objectProxy(arguments) == [made |-> TRUE, object |-> arguments[1], func |-> arguments[2],
                           args |-> arguments]
\* func.apply(thisArg, args) as the one invocation of func it is
Invocation(func, thisArg, args) ==
  [func |-> func, this |-> thisArg, args |-> args, threw |-> Apply(func, thisArg, args).threw]
\* A proxy that passes on the arguments of its own call
proxyCallOwnArguments(proxy, callArgs) == <<Invocation(proxy.func, proxy.object, callArgs)>>
\* A call of the returned function, as the invocations of func it makes:
\*   func.apply(object, [].slice.call(args, 2))
proxyCall(proxy, callArgs) ==
  <<Invocation(proxy.func, proxy.object, Slice(proxy.args, 2))>>

(* ------------------- lib/injector.js (continued) ---------------------- *)
\* The resolution loop of inject: i counts the parameters resolved so far;
\* the loop breaks at the first parameter whose registry value is falsy and
\* is left by an exception when a getter throws.
RECURSIVE Resolve(_, _, _)
Resolve(obj, args, i) ==
  IF i >= Len(args) THEN [i |-> i, threw |-> FALSE, err |-> NoErr]
  ELSE LET g == RegGet(obj, args[i + 1]) IN
       IF g.threw THEN [i |-> i, threw |-> TRUE, err |-> g.err]
       ELSE IF Truthy(g.val) THEN Resolve(obj, args, i + 1)
       ELSE [i |-> i, threw |-> FALSE, err |-> NoErr]

NoResult == [kind |-> "none", err |-> NoErr, val |-> NoCall,
             func |-> [name |-> "", params |-> <<>>, body |-> "ret"],
             context |-> "none", injectArgs |-> <<>>,
             exParamLength |-> 0, called |-> FALSE, call |-> NoCall]

\* inject(func, mustInvoke) of the injector created for (context, obj).
\*   kind "throw"   : an exception leaves inject (err)
\*   kind "value"   : func was invoked, val is what it returned
\*   kind "wrapper" : the wrapper function, described by what it closes over
\* called/call tell whether func's body ran and with which receiver/arguments.
Inject(context, obj, func, mustInvoke) ==
  LET args == getFunctionParameters(func)
      r == Resolve(obj, args, 0)
      injectArgs == [k \in 1..r.i |-> RegGet(obj, args[k]).val]
      blank == [NoResult EXCEPT !.kind = "throw", !.func = func, !.context = context]
  IN IF r.threw THEN [blank EXCEPT !.err = r.err]
     ELSE IF r.i < Len(args) THEN
       IF mustInvoke THEN [blank EXCEPT !.err = Err("mustInvoke", "")]
       ELSE [blank EXCEPT !.kind = "wrapper", !.injectArgs = injectArgs,
                          !.exParamLength = Len(args) - r.i]
     ELSE LET a == Apply(func, context, injectArgs) IN
          IF a.threw
            THEN [blank EXCEPT !.err = a.err, !.called = TRUE,
                               !.call = [this |-> context, args |-> injectArgs]]
            ELSE [blank EXCEPT !.kind = "value", !.val = a.ret, !.called = TRUE,
                               !.call = [this |-> context, args |-> injectArgs]]

\* A wrapper that puts its own arguments before the injected ones
CallWrapperArgumentsFirst(w, arguments) ==
  LET all == arguments \o w.injectArgs
      a == Apply(w.func, w.context, all)
  IN [threw |-> a.threw, ret |-> a.ret, err |-> a.err, done |-> a.done,
      call |-> [this |-> w.context, args |-> all]]

\* Calling the wrapper inject returned:
\*   func.apply(context, injectArgs.concat([].slice.call(arguments)))
CallWrapper(w, arguments) ==
  LET all == w.injectArgs \o arguments
      a == Apply(w.func, w.context, all)
  IN [threw |-> a.threw, ret |-> a.ret, err |-> a.err, done |-> a.done,
      call |-> [this |-> w.context, args |-> all]]


\* A classification by any parameter named 'done'
determineAsyncAnywhere(f) ==
  LET args == getFunctionParameters(f) IN
  \E i \in 1..Len(args) : args[i] = "done"

\* determineAsync: the last declared parameter is named 'done'
determineAsync(f) ==
  LET args == getFunctionParameters(f) IN
  Len(args) > 0 /\ args[Len(args)] = "done"

\* determineAsync's console.warn: the function is not asynchronous and
\* 'done' is found in args, from which args.pop() has taken the last name
determineAsyncWarns(f) ==
  LET args == getFunctionParameters(f)
      popped == IF Len(args) > 0 THEN SubSeq(args, 1, Len(args) - 1) ELSE args
  IN ~determineAsync(f) /\ \E i \in 1..Len(popped) : popped[i] = "done"

(* ------------------------ lib/initializer.js -------------------------- *)
\* A loadable module: require(initializerBasePath + component) gives either
\* a function or a plain object; either may carry a `production` and a
\* `development` property.
U(n, ps, b) == [name |-> n, params |-> ps, body |-> b]
NoUnit == U("", <<>>, "ret")
Absent == [present |-> FALSE, fn |-> FALSE, unit |-> NoUnit]
Variant(u) == [present |-> TRUE, fn |-> TRUE, unit |-> u]
FnModule(u) == [fn |-> TRUE, unit |-> u, production |-> Absent, development |-> Absent]
ObjModule(p, d) == [fn |-> FALSE, unit |-> NoUnit, production |-> p, development |-> d]

\* The initializer modules on disk, by component name
Modules ==
  [sOk    |-> FnModule(U("sOk", <<"a">>, "ret")),
   sThrow |-> FnModule(U("sThrow", <<>>, "throw")),
   sMis   |-> FnModule(U("sMis", <<"done", "a">>, "ret")),
   aOk    |-> FnModule(U("aOk", <<"a", "done">>, "doneOk")),
   aErr   |-> FnModule(U("aErr", <<"done">>, "doneErr")),
   aLater |-> FnModule(U("aLater", <<"done">>, "later")),
   aThrow |-> FnModule(U("aThrow", <<"done">>, "throw")),
   aExtra |-> FnModule(U("aExtra", <<"x", "done">>, "doneOk")),
   obj    |-> ObjModule(Absent, Absent),
   onlyP  |-> ObjModule(Variant(U("onlyP", <<>>, "ret")), Absent),
   fnD    |-> [fn |-> TRUE, unit |-> U("fnD", <<>>, "ret"), production |-> Absent,
               development |-> Variant(U("fnDdev", <<"a">>, "ret"))],
   byEnv  |-> ObjModule(Variant(U("byEnvP", <<"$routes">>, "ret")),
                        Variant(U("byEnvD", <<>>, "ret")))]
Components == DOMAIN Modules

\* A selection that prefers the production variant in every environment
processInitializerProductionFirst(environment, component) ==
  LET module == Modules[component]
      self == [present |-> TRUE, fn |-> module.fn, unit |-> module.unit]
      initializer == IF module.production.present THEN module.production
                     ELSE IF module.development.present THEN module.development
                     ELSE self
  IN IF ~initializer.fn
       THEN [threw |-> TRUE, err |-> Err("incomplete", component), fn |-> NoUnit]
       ELSE [threw |-> FALSE, err |-> NoErr, fn |-> initializer.unit]

\* A processInitializer without the typeof check
processInitializerUnchecked(environment, component) ==
  LET module == Modules[component]
      self == [present |-> TRUE, fn |-> module.fn, unit |-> module.unit]
      initializer == IF environment = "production"
                       THEN (IF module.production.present THEN module.production ELSE self)
                       ELSE (IF module.development.present THEN module.development ELSE self)
  IN [threw |-> FALSE, err |-> NoErr, fn |-> initializer.unit]

\* processInitializer without its last line: load the module, select the
\* variant of the environment, check that it is a function.
processInitializer(environment, component) ==
  LET module == Modules[component]
      self == [present |-> TRUE, fn |-> module.fn, unit |-> module.unit]
      initializer == IF environment = "production"
                       THEN (IF module.production.present THEN module.production ELSE self)
                       ELSE (IF module.development.present THEN module.development ELSE self)
  IN IF ~initializer.fn
       THEN [threw |-> TRUE, err |-> Err("incomplete", component), fn |-> NoUnit]
       ELSE [threw |-> FALSE, err |-> NoErr, fn |-> initializer.unit]

\* The run of the pipeline, as the record the operators below transform:
\*   completed : async.series' count of tasks that called back without error
\*   finalNoop : async.series has replaced its final callback by a no-op
\*   pending   : started asynchronous steps whose initializer holds the
\*               callback and has not called it yet
\*   log       : the trace of what has happened, in order
\*   exc       : the exception now propagating up the call stack (NoErr: none)
Ev(e, i, err, args) == [ev |-> e, step |-> i, err |-> err, args |-> args]
Note(m, e, i, err, args) == [m EXCEPT !.log = Append(@, Ev(e, i, err, args))]
Raise(m, i, err) == [Note(m, "raise", i, err, <<>>) EXCEPT !.exc = err]

\* A final callback that drops the error it is given
SeriesCallbackDropsError(m, ocThrows, err) ==
  IF m.finalNoop THEN m
  ELSE LET m1 == [m EXCEPT !.log = Append(@, [ev |-> "final", step |-> 0, err |-> NoErr,
                                              args |-> <<>>])] IN
       IF ocThrows THEN [m1 EXCEPT !.exc = [kind |-> "onComplete", who |-> ""]] ELSE m1

\* The function runInitializers hands to async.series as final callback:
\*   function(err) { return callback && callback(err); }
\* with callback the caller's onComplete, which returns or throws.
SeriesCallback(m, ocThrows, err) ==
  IF m.finalNoop THEN m
  ELSE LET m1 == Note(m, "final", 0, err, <<>>) IN
       IF ocThrows THEN Raise(m1, 0, Err("onComplete", "")) ELSE m1

\* async.series(tasks, final) runs tasks[completed] and hands it the callback
\* StepCb: an error goes to final, which is then replaced by a no-op; no
\* error counts the task as completed and runs the next task from inside
\* the callback, or final when none is left.
\* RunStep is the function createInitializerFunction returns, called with
\* that callback.  Steps are numbered from 1; the step number of an event of
\* the pipeline itself is 0.
RECURSIVE RunStep(_, _, _, _, _), StepCb(_, _, _, _, _, _)

\* A step callback that goes on with the next task whatever the error
StepCbContinues(fns, obj, ocThrows, m, i, err) ==
  Bind(Note(m, "cb", i, err, <<>>), LAMBDA m0 :
    Bind([m0 EXCEPT !.completed = @ + 1], LAMBDA m1 :
      IF m1.completed >= Len(fns)
        THEN SeriesCallback(m1, ocThrows, err)
        ELSE RunStep(fns, obj, ocThrows, m1, m1.completed + 1)))

\* A step callback that takes the series as done one task early
StepCbEndsEarly(fns, obj, ocThrows, m, i, err) ==
  Bind(Note(m, "cb", i, err, <<>>), LAMBDA m0 :
    IF err # NoErr
      THEN Bind(SeriesCallback(m0, ocThrows, err), LAMBDA m1 :
             IF m1.exc # NoErr THEN m1 ELSE [m1 EXCEPT !.finalNoop = TRUE])
      ELSE Bind([m0 EXCEPT !.completed = @ + 1], LAMBDA m1 :
             IF m1.completed >= Len(fns) - 1
               THEN SeriesCallback(m1, ocThrows, NoErr)
               ELSE RunStep(fns, obj, ocThrows, m1, m1.completed + 1)))

StepCb(fns, obj, ocThrows, m, i, err) ==
  Bind(Note(m, "cb", i, err, <<>>), LAMBDA m0 :
    IF err # NoErr
      THEN Bind(SeriesCallback(m0, ocThrows, err), LAMBDA m1 :
             IF m1.exc # NoErr THEN m1 ELSE [m1 EXCEPT !.finalNoop = TRUE])
      ELSE Bind([m0 EXCEPT !.completed = @ + 1], LAMBDA m1 :
             IF m1.completed >= Len(fns)
               THEN SeriesCallback(m1, ocThrows, NoErr)
               ELSE RunStep(fns, obj, ocThrows, m1, m1.completed + 1)))

\* An asynchronous branch that does not wait for a callback still to come
RunAsyncStepNoWait(fns, obj, ocThrows, m0, i, initializer) ==
  Bind(Inject(Context, obj, initializer, FALSE), LAMBDA asyncInit :
    Bind(IF asyncInit.called
           THEN Note(m0, "invoke", i, NoErr, asyncInit.call.args) ELSE m0, LAMBDA m1 :
      CASE asyncInit.kind = "throw" -> Raise(m1, i, asyncInit.err)
        [] asyncInit.kind = "value" ->
             StepCb(fns, obj, ocThrows, m1, i, Err("notInvokable", initializer.name))
        [] OTHER ->
             IF asyncInit.exParamLength # 1
               THEN StepCb(fns, obj, ocThrows, m1, i, Err("extraParams", initializer.name))
               ELSE Bind(CallWrapper(asyncInit, <<CallbackTok>>), LAMBDA c :
                      Bind(Note(m1, "invoke", i, NoErr, c.call.args), LAMBDA m2 :
                        CASE c.threw -> Raise(m2, i, c.err)
                          [] c.done = "ok" -> StepCb(fns, obj, ocThrows, m2, i, NoErr)
                          [] c.done = "err" ->
                               StepCb(fns, obj, ocThrows, m2, i, Err("cb", initializer.name))
                          [] c.done = "later" ->
                               StepCb(fns, obj, ocThrows,
                                      [m2 EXCEPT !.pending = @ \cup {i}], i, NoErr)
                          [] OTHER -> m2))))

\* The asynchronous branch of the step function
RunAsyncStep(fns, obj, ocThrows, m0, i, initializer) ==
  Bind(Inject(Context, obj, initializer, FALSE), LAMBDA asyncInit :
    Bind(IF asyncInit.called
           THEN Note(m0, "invoke", i, NoErr, asyncInit.call.args) ELSE m0, LAMBDA m1 :
      CASE asyncInit.kind = "throw" -> Raise(m1, i, asyncInit.err)
        [] asyncInit.kind = "value" ->
             StepCb(fns, obj, ocThrows, m1, i, Err("notInvokable", initializer.name))
        [] OTHER ->
             IF asyncInit.exParamLength # 1
               THEN StepCb(fns, obj, ocThrows, m1, i, Err("extraParams", initializer.name))
               ELSE Bind(CallWrapper(asyncInit, <<CallbackTok>>), LAMBDA c :
                      Bind(Note(m1, "invoke", i, NoErr, c.call.args), LAMBDA m2 :
                        CASE c.threw -> Raise(m2, i, c.err)
                          [] c.done = "ok" -> StepCb(fns, obj, ocThrows, m2, i, NoErr)
                          [] c.done = "err" ->
                               StepCb(fns, obj, ocThrows, m2, i, Err("cb", initializer.name))
                          [] c.done = "later" -> [m2 EXCEPT !.pending = @ \cup {i}]
                          [] OTHER -> m2))))

\* A synchronous branch without its try/catch
RunSyncStepNoCatch(fns, obj, ocThrows, m0, i, initializer) ==
  Bind(Inject(Context, obj, initializer, TRUE), LAMBDA r :
    Bind(IF r.called THEN Note(m0, "invoke", i, NoErr, r.call.args) ELSE m0, LAMBDA m1 :
      IF r.kind = "throw" THEN Raise(m1, i, r.err)
      ELSE StepCb(fns, obj, ocThrows, m1, i, NoErr)))

\* The synchronous branch of the step function:
\*   try { inject(initializer, true); return callback(null); }
\*   catch(err) { return callback(err); }
RunSyncStep(fns, obj, ocThrows, m0, i, initializer) ==
  Bind(Inject(Context, obj, initializer, TRUE), LAMBDA r :
    Bind(IF r.called THEN Note(m0, "invoke", i, NoErr, r.call.args) ELSE m0, LAMBDA m1 :
      IF r.kind = "throw"
        THEN StepCb(fns, obj, ocThrows, Note(m1, "raise", i, r.err, <<>>), i, r.err)
        ELSE Bind(StepCb(fns, obj, ocThrows, m1, i, NoErr), LAMBDA m2 :
               IF m2.exc # NoErr
                 THEN StepCb(fns, obj, ocThrows, [m2 EXCEPT !.exc = NoErr], i, m2.exc)
                 ELSE m2)))

RunStep(fns, obj, ocThrows, m, i) ==
  Bind(Note(m, "start", i, NoErr, <<>>), LAMBDA m0 :
    IF determineAsync(fns[i])
      THEN RunAsyncStep(fns, obj, ocThrows, m0, i, fns[i])
      ELSE RunSyncStep(fns, obj, ocThrows, m0, i, fns[i]))

\* initAndMapInitializers: inject(umbrellaInit, true).map(processInitializer),
\* the producer returning the descriptors `descriptors`.  Each descriptor is
\* processed in order until one throws.
\* A map that leaves out a descriptor whose value is not callable
RECURSIVE MapFromSkipsBad(_, _, _, _, _)
MapFromSkipsBad(environment, descriptors, m, k, acc) ==
  IF k > Len(descriptors) THEN [m |-> m, fns |-> acc]
  ELSE LET p == processInitializer(environment, descriptors[k])
           m1 == Note(m, "load", k, NoErr, <<>>)
       IN MapFromSkipsBad(environment, descriptors, m1, k + 1,
                          IF p.threw THEN acc ELSE Append(acc, p.fn))

RECURSIVE MapFrom(_, _, _, _, _)
MapFrom(environment, descriptors, m, k, acc) ==
  IF k > Len(descriptors) THEN [m |-> m, fns |-> acc]
  ELSE LET p == processInitializer(environment, descriptors[k])
           m1 == Note(m, "load", k, NoErr, <<>>)
       IN IF p.threw THEN [m |-> Raise(m1, 0, p.err), fns |-> acc]
          ELSE MapFrom(environment, descriptors, m1, k + 1, Append(acc, p.fn))

\* An initAndMapInitializers that goes on when the producer has thrown
initAndMapInitializersGoesOn(environment, obj, umbrellaInit, descriptors, m) ==
  MapFrom(environment, descriptors, Note(m, "ordered", 0, NoErr, <<>>), 1, <<>>)

initAndMapInitializers(environment, obj, umbrellaInit, descriptors, m) ==
  LET o == Inject(Context, obj, umbrellaInit, TRUE) IN
  IF o.kind = "throw" THEN [m |-> Raise(m, 0, o.err), fns |-> <<>>]
  ELSE MapFrom(environment, descriptors, Note(m, "ordered", 0, NoErr, <<>>), 1, <<>>)

\* module.exports of initializer.js: the whole call, up to its return or to
\* the exception that leaves it.
runInitializers(environment, obj, umbrellaInit, descriptors, ocThrows, m) ==
  Bind(initAndMapInitializers(environment, obj, umbrellaInit, descriptors, m),
       LAMBDA mapped :
    [fns |-> mapped.fns,
     m |-> IF mapped.m.exc # NoErr THEN mapped.m
           ELSE IF Len(mapped.fns) = 0 THEN SeriesCallback(mapped.m, ocThrows, NoErr)
           ELSE RunStep(mapped.fns, obj, ocThrows, mapped.m, 1)])

(* -------------------------- lib/builder.js ---------------------------- *)
\* A directory is the list fs.readdirSync gives, each entry with what the
\* file system and require hold for it:
\*   name : the entry's name as its dot-separated parts (index.js is
\*          <<"index", "js">>, a directory admin is <<"admin">>)
\*   dir  : fs.statSync(..).isDirectory()
\*   sub  : the entries of a sub-directory
\*   m    : what require gives for a file: a function (kind "fn", unit), any
\*          other value (kind "plain"), or an exception (kind "bad")
Join(parts) ==
  LET F[k \in 0..Len(parts)] ==
        IF k = 0 THEN ""
        ELSE IF k = 1 THEN parts[1] ELSE F[k - 1] \o "." \o parts[k]
  IN F[Len(parts)]
FileName(parts) == Join(parts)
\* path.extname: from the last '.' on; none when the name has no '.' or
\* only a leading one
ExtParts(parts) ==
  IF Len(parts) >= 2 /\ ~(Len(parts) = 2 /\ parts[1] = "") THEN 1 ELSE 0
\* path.basename(file, path.extname(file))
BaseName(parts) == Join(SubSeq(parts, 1, Len(parts) - ExtParts(parts)))

NoModule == [kind |-> "none", unit |-> NoUnit, id |-> ""]
FnMod(u) == [kind |-> "fn", unit |-> u, id |-> u.name]
PlainMod(id) == [kind |-> "plain", unit |-> NoUnit, id |-> id]
BadMod(id) == [kind |-> "bad", unit |-> NoUnit, id |-> id]
File(parts, m) == [name |-> parts, dir |-> FALSE, sub |-> <<>>, m |-> m]
Dir(n, entries) == [name |-> <<n>>, dir |-> TRUE, sub |-> entries, m |-> NoModule]

\* What the built object holds under a key: a nested object (t "object"),
\* a value stored as loaded (t "loaded"), or what inject returned for a
\* function (t "injected")
NoStored == [t |-> "none", o |-> <<>>, id |-> "", res |-> NoResult]
Put(object, key, v) ==
  [k \in DOMAIN object \cup {key} |-> IF k = key THEN v ELSE object[k]]

\* The variable inject of umbrella.js while no injector has been created: it
\* holds null, and calling it is a TypeError.  Wherever an injector is
\* passed as its registry, this value stands for that null.
NoInjector == [ext |-> <<>>, int |-> <<>>, threw |-> TRUE,
               err |-> Err("notAFunction", "inject")]

\* The process buildAndProcess maps over the modules:
\*   if(typeof object === 'function') return inject(object); else return object;
process(context, obj, m) ==
  IF m.kind = "fn" /\ obj.threw
    THEN [threw |-> TRUE, err |-> obj.err, v |-> NoStored, calls |-> <<>>]
  ELSE IF m.kind = "fn"
    THEN Bind(Inject(context, obj, m.unit, FALSE), LAMBDA r :
           [threw |-> r.kind = "throw", err |-> r.err,
            v |-> [NoStored EXCEPT !.t = "injected", !.id = m.id, !.res = r],
            calls |-> <<m.id>>])
    ELSE [threw |-> FALSE, err |-> NoErr,
          v |-> [NoStored EXCEPT !.t = "loaded", !.id = m.id], calls |-> <<>>]

\* buildDependancyObject(dir, object, process), entry k of `entries` onwards.
\* calls lists the functions handed to inject so far.
RECURSIVE buildDependancyObject(_, _, _, _, _, _)

\* A build that goes on after an entry that failed
buildDependancyObjectSkipsFailed(context, obj, entries, k, object, calls) ==
  IF k > Len(entries) THEN [threw |-> FALSE, err |-> NoErr, object |-> object, calls |-> calls]
  ELSE LET e == entries[k] IN
    IF e.dir
      THEN Bind(buildDependancyObject(context, obj, e.sub, 1, <<>>, calls), LAMBDA r :
             buildDependancyObject(context, obj, entries, k + 1,
               IF r.threw THEN object
               ELSE Put(object, FileName(e.name),
                        [NoStored EXCEPT !.t = "object", !.o = r.object]),
               r.calls))
    ELSE IF e.m.kind = "bad"
      THEN buildDependancyObject(context, obj, entries, k + 1, object, calls)
    ELSE Bind(process(context, obj, e.m), LAMBDA r :
           buildDependancyObject(context, obj, entries, k + 1,
             IF r.threw THEN object ELSE Put(object, BaseName(e.name), r.v),
             calls \o r.calls))

buildDependancyObject(context, obj, entries, k, object, calls) ==
  IF k > Len(entries) THEN [threw |-> FALSE, err |-> NoErr, object |-> object, calls |-> calls]
  ELSE LET e == entries[k] IN
    IF e.dir
      THEN Bind(buildDependancyObject(context, obj, e.sub, 1, <<>>, calls), LAMBDA r :
             IF r.threw THEN [r EXCEPT !.object = <<>>]
             ELSE buildDependancyObject(context, obj, entries, k + 1,
                    Put(object, FileName(e.name),
                        [NoStored EXCEPT !.t = "object", !.o = r.object]),
                    r.calls))
    ELSE IF e.m.kind = "bad"
      THEN [threw |-> TRUE, err |-> Err("require", e.m.id), object |-> <<>>, calls |-> calls]
    ELSE Bind(process(context, obj, e.m), LAMBDA r :
           IF r.threw
             THEN [threw |-> TRUE, err |-> r.err, object |-> <<>>, calls |-> calls \o r.calls]
             ELSE buildDependancyObject(context, obj, entries, k + 1,
                    Put(object, BaseName(e.name), r.v), calls \o r.calls))

\* builder.buildAndProcess(path, inject) on the directory `entries`
buildAndProcess(context, obj, entries) ==
  buildDependancyObject(context, obj, entries, 1, <<>>, <<>>)

(* -------------------------- lib/umbrella.js --------------------------- *)
\* The internals object: the slots that start as null, and express and
\* describe, which are set from the start.  A slot holds "null" or the name
\* of the object assigned to it.
Slots == {"umbrella", "app", "server", "root", "components", "middlewares", "routes"}
NoInternals == [s \in Slots |-> "null"]
\* internals as createInjectionComponents and its getters see it
InternalComponents(internals) ==
  [k \in Slots \cup {"express", "describe"} |->
     IF k \in Slots THEN internals[k] ELSE k \o "Obj"]
\* The object a build returns is a new one: distinct from the one in the slot
New(kind, old) == IF old = kind \o "#1" THEN kind \o "#2" ELSE kind \o "#1"

\* What the files umbrella requires hold at the time of a call: the
\* middlewares and routes directories, and whether the environment
\* configurations, the models, the routes configuration and server.listen
\* run through or throw
GoodDir == <<File(<<"index", "js">>, FnMod(U("index", <<"a">>, "ret")))>>
BadDir == <<Dir("admin", <<File(<<"admin", "js">>, PlainMod("adminJs")),
                          File(<<"index", "json">>, BadMod("indexJson"))>>),
           File(<<"index", "js">>, FnMod(U("index", <<"a">>, "ret")))>>
EarlyDir == <<Dir("admin", <<File(<<"index", "js">>, FnMod(U("index", <<"a">>, "ret"))),
                            File(<<"users", "js">>,
                                 FnMod(U("users", <<"$routes">>, "ret")))>>)>>
UmbrellaDirs == {GoodDir, BadDir, EarlyDir}
AllWell == [middlewares |-> GoodDir, routes |-> GoodDir, configure |-> "ok",
            models |-> "ok", routesConfig |-> "ok", listen |-> "ok"]
FileStates ==
  {[AllWell EXCEPT !.middlewares = d] : d \in UmbrellaDirs} \cup
  {[AllWell EXCEPT !.routes = d] : d \in UmbrellaDirs} \cup
  {[AllWell EXCEPT !.configure = "throws"], [AllWell EXCEPT !.models = "throws"],
   [AllWell EXCEPT !.routesConfig = "throws"], [AllWell EXCEPT !.listen = "throws"]}

\* The state the operations of one umbrella object work on:
\*   internals : the internals object
\*   inject    : the registry of the injector, NoInjector while inject is null
\*   ulog      : what the calls of umbrella.all have done, in order
\*   call      : whose events the log is getting: "all" for the call of all
\*               that starts the pipeline, "other" for a call of all that
\*               ends before init, "init" for a pipeline init() started
\* An operation returns the state it leaves and whether it threw.
Ret(u) == [u |-> u, threw |-> FALSE, err |-> NoErr, at |-> ""]
Throw(u, err, at) == [u |-> u, threw |-> TRUE, err |-> err, at |-> at]
Then(r, Op(_)) == IF r.threw THEN r ELSE Op(r.u)
Assign(u, slot, v) ==
  [u EXCEPT !.internals[slot] = v,
            !.inject = IF @.threw THEN @ ELSE [@ EXCEPT !.int[slot] = v]]
UEv(e, n, err, arg) == [ev |-> e, call |-> n, err |-> err, arg |-> arg]
\* A phase of all, as all's log records it: returned (NoErr) or threw
Phase(name, r) == [r EXCEPT !.u.ulog = Append(@, UEv(name, r.u.call, r.err, ""))]

\* A bootstrap without the guard of its first line
bootstrapUnguarded(u, comps) ==
  LET set == [u.internals EXCEPT !.umbrella = "umbrellaObj", !.app = "appObj",
                                 !.server = "serverObj", !.root = "rootDir",
                                 !.components = IF comps.given THEN "componentsObj"
                                                ELSE "null"]
      u1 == [u EXCEPT !.internals = set]
  IN IF ~comps.given
       THEN Throw(u1, Err("typeError", "components"), "createInjectionComponents")
       ELSE LET r == createInjectionComponents(comps.obj, InternalComponents(set)) IN
            IF r.threw THEN Throw(u1, r.err, "createInjectionComponents")
            ELSE Ret([u1 EXCEPT !.inject = r])

\* bootstrap(components).  Object.keys(null) inside createInjectionComponents
\* is a TypeError.
bootstrap(u, comps) ==
  IF u.internals.app # "null" THEN Throw(u, Err("multiple", "bootstrap"), "guard")
  ELSE LET set == [u.internals EXCEPT !.umbrella = "umbrellaObj", !.app = "appObj",
                                      !.server = "serverObj", !.root = "rootDir",
                                      !.components = IF comps.given THEN "componentsObj"
                                                     ELSE "null"]
           u1 == [u EXCEPT !.internals = set]
       IN IF ~comps.given
            THEN Throw(u1, Err("typeError", "components"), "createInjectionComponents")
            ELSE LET r == createInjectionComponents(comps.obj, InternalComponents(set)) IN
                 IF r.threw THEN Throw(u1, r.err, "createInjectionComponents")
                 ELSE Ret([u1 EXCEPT !.inject = r])

\* buildMiddlewares()
buildMiddlewares(u, dir) ==
  IF u.internals.app = "null"
    THEN Throw(u, Err("notBootstrapped", "buildMiddlewares"), "guard")
  ELSE Bind(buildAndProcess(Context, u.inject, dir), LAMBDA r :
         IF r.threw THEN Throw(u, r.err, "build")
         ELSE Ret(Assign(u, "middlewares", New("middlewares", u.internals.middlewares))))

\* configure(): requires the environment modules and runs them through
\* inject.bind(app, config, true)
configure(u, files) ==
  IF u.internals.app = "null" THEN Throw(u, Err("notBootstrapped", "configure"), "guard")
  ELSE IF u.inject.threw THEN Throw(u, u.inject.err, "configure")
  ELSE IF files.configure = "throws" THEN Throw(u, Err("configure", ""), "configure")
  ELSE Ret(u)

\* bootstrapModels(): inject(require(model), true) for each file of the
\* models folder, when there is one
bootstrapModels(u, files) ==
  IF u.internals.app = "null"
    THEN Throw(u, Err("notBootstrapped", "bootstrapModels"), "guard")
  ELSE IF u.inject.threw THEN Throw(u, u.inject.err, "models")
  ELSE IF files.models = "throws" THEN Throw(u, Err("model", ""), "models")
  ELSE Ret(u)

\* A route without the guard of its first line
routeUnguarded(u, files) ==
  Bind(buildAndProcess(Context, u.inject, files.routes), LAMBDA r :
    IF r.threw THEN Throw(u, r.err, "build")
    ELSE Bind(Assign(u, "routes", New("routes", u.internals.routes)), LAMBDA u1 :
           IF u1.inject.threw THEN Throw(u1, u1.inject.err, "routesConfig")
           ELSE IF files.routesConfig = "throws"
             THEN Throw(u1, Err("routesConfig", ""), "routesConfig")
           ELSE Ret(u1)))

\* route(): build the routes object, then inject the routes configuration
route(u, files) ==
  IF u.internals.app = "null" THEN Throw(u, Err("notBootstrapped", "route"), "guard")
  ELSE Bind(buildAndProcess(Context, u.inject, files.routes), LAMBDA r :
         IF r.threw THEN Throw(u, r.err, "build")
         ELSE Bind(Assign(u, "routes", New("routes", u.internals.routes)), LAMBDA u1 :
                IF u1.inject.threw THEN Throw(u1, u1.inject.err, "routesConfig")
                ELSE IF files.routesConfig = "throws"
                  THEN Throw(u1, Err("routesConfig", ""), "routesConfig")
                ELSE Ret(u1)))

\* listen()
listen(u, files) ==
  IF u.internals.app = "null" THEN Throw(u, Err("notBootstrapped", "listen"), "guard")
  ELSE IF files.listen = "throws" THEN Throw(u, Err("listen", ""), "listen")
  ELSE Ret(u)

\* callback && callback(err, umbrella): cb is "none" when no callback was
\* given, else tells whether the user's callback returns or throws
Callback(u, cb, err, umbrella) ==
  IF cb = "none" THEN Ret(u)
  ELSE Bind([u EXCEPT !.ulog = Append(@, UEv("callback", u.call, err, umbrella))],
            LAMBDA u1 :
         IF cb = "throws" THEN Throw(u1, Err("callback", ""), "callback") ELSE Ret(u1))

\* The function all hands to init:
\*   function(err, umbrella) {
\*     if(err) return callback && callback(err, umbrella);
\*     try { umbrella.bootstrapModels().route().listen();
\*           return callback && callback(null, umbrella); }
\*     catch (err) { return callback && callback(err, umbrella); } }
\* called by init's own function(err) { initCallback(err, internals.umbrella) }
allInitCallback(u, cb, files, err) ==
  Bind([u EXCEPT !.ulog = Append(@, UEv("pipeline", u.call, err, ""))], LAMBDA u0 :
    IF err # NoErr THEN Callback(u0, cb, err, u0.internals.umbrella)
    ELSE Bind(Then(Then(Phase("bootstrapModels", bootstrapModels(u0, files)),
                        LAMBDA v : Phase("route", route(v, files))),
                   LAMBDA v : Phase("listen", listen(v, files))), LAMBDA c :
           IF c.threw THEN Callback(c.u, cb, c.err, c.u.internals.umbrella)
           ELSE Bind(Callback(c.u, cb, NoErr, c.u.internals.umbrella), LAMBDA k :
                  IF k.threw THEN Callback(k.u, cb, k.err, k.u.internals.umbrella)
                  ELSE k)))

\* What the completion callback init hands to the initializer does: the init
\* callback of all for a pipeline all has started, the user's
\* initCallback for one started by init() itself
initCallback(u, cb, files, err) ==
  IF u.call = "init" THEN Callback(u, cb, err, u.internals.umbrella)
  ELSE allInitCallback(u, cb, files, err)

\* The completion callbacks the pipeline has fired from position k of its
\* log on, run in order.  No step is started after a completion callback,
\* so nothing the pipeline reads depends on what they assign.
RECURSIVE Completions(_, _, _, _, _)
Completions(u, cb, files, lg, k) ==
  IF k > Len(lg) THEN u
  ELSE IF lg[k].ev = "final"
    THEN Bind(initCallback(u, cb, files, lg[k].err), LAMBDA r :
           Completions(r.u, cb, files, lg, k + 1))
  ELSE Completions(u, cb, files, lg, k + 1)

\* The synchronous phases all runs before init
\*   this.bootstrap(components).buildMiddlewares().configure()
allPrelude(u, comps, files) ==
  Then(Then(Phase("bootstrap", bootstrap(u, comps)),
            LAMBDA v : Phase("buildMiddlewares", buildMiddlewares(v, files.middlewares))),
       LAMBDA v : Phase("configure", configure(v, files)))

(* ------------------------------ state --------------------------------- *)
VARIABLES
  components,        \* the registry object the injector reads
  \* one use of the injector (lib/injector.js)
  func,              \* the callable handed to inject
  mustInvoke,        \* inject's second argument
  ipc,               \* "ready" before inject(func, mustInvoke), then "returned" / "threw"
  result,            \* what inject returned or threw
  invocations,       \* how many times func's body has run
  wrapperCalls,      \* how many times the returned wrapper has been called
  lastCall,          \* receiver and arguments of func's latest invocation
  lastArgs,          \* the arguments of the latest wrapper call
  lastReturn,        \* what the latest wrapper call returned or threw
  \* one run of the initializer pipeline (lib/initializer.js)
  env,               \* the environment string
  umbrellaInit,      \* the ordering producer
  order,             \* the component names of the descriptors it returns
  dependencies,      \* the `dependencies` fields of these descriptors
  onCompleteThrows,  \* whether the caller's completion callback throws
  pc,                \* "idle" before runInitializers, then "returned" / "threw"
  initializers,      \* the step functions handed to async.series
  completed,         \* async.series: tasks completed without error
  finalNoop,         \* async.series: final callback replaced by a no-op
  pending,           \* started asynchronous steps that hold their callback
  log,               \* trace of the run: loads, starts, invocations, callbacks
  \* direct use of lib/utilities.js
  external,          \* the user's components object
  internal,          \* umbrella's internals object
  upc,               \* "ready" before createInjectionComponents, then "created" / "threw"
  got,               \* the latest read of a registry property
  ufunc,             \* the function handed to determineAsync
  asyncOf,           \* what determineAsync returned and whether it warned
  \* one use of lib/builder.js
  tree,              \* the directory handed to buildAndProcess
  bpc,               \* "ready" before buildAndProcess, then "built" / "threw"
  built,             \* what buildAndProcess returned or threw
  \* one umbrella object (lib/umbrella.js)
  internals,         \* its internals object
  userCallback,      \* the callback of the call that started the pipeline
  owner,             \* what started the pipeline: "none", "init" or "all"
  last,              \* the latest call or turn: operation, outcome, state before it
  ulog,              \* what the calls of all have done, in order
  \* direct use of getFunctionParameters and of objectProxy (lib/util.js)
  declared,          \* the callable handed to getFunctionParameters
  extracted,         \* what getFunctionParameters returned, or that it threw
  proxyArguments,    \* the arguments of objectProxy: object, func, x1, .., xn
  proxy,             \* the function objectProxy returned
  proxied            \* the calls of the proxy: its arguments, and what func got

ivars == <<func, mustInvoke, ipc, result, invocations, wrapperCalls,
           lastCall, lastArgs, lastReturn>>
pvars == <<env, umbrellaInit, order, dependencies, onCompleteThrows, pc, initializers,
           completed, finalNoop, pending, log>>
uvars == <<external, internal, upc, got, ufunc, asyncOf>>
bvars == <<tree, bpc, built>>
mvars == <<internals, userCallback, owner, last, ulog>>
hvars == <<declared, extracted, proxyArguments, proxy, proxied>>
vars == <<components, ivars, pvars, uvars, bvars, mvars, hvars>>

(* ------------------------- inputs of the model ------------------------ *)
\* Sequences over S of length at most n, without repeated elements
\* (the sources are strict-mode code: no duplicate parameter names)
RECURSIVE DistinctSeqs(_, _)
DistinctSeqs(S, n) ==
  IF n = 0 THEN {<<>>}
  ELSE LET shorter == DistinctSeqs(S, n - 1)
           longest == {q \in shorter : Len(q) = n - 1}
       IN shorter \cup
          {Append(p[1], p[2]) :
             p \in {pp \in longest \X S : \A i \in 1..Len(pp[1]) : pp[1][i] # pp[2]}}

\* Functions from a subset of the names in D to their possible values
PartialMaps(D, V(_)) ==
  UNION {{f \in [S -> UNION {V(d) : d \in S}] : \A d \in S : f[d] \in V(d)} : S \in SUBSET D}

ParamNames == {"a", "b", "c", "x", "$routes", "toString"}
ExtValues(n) == IF n = "a" THEN {"v_a", "zero"} ELSE {"v_" \o n}
InjectRegistries ==
  {createInjectionComponents(e, [app |-> "appObj", routes |-> r]) :
     e \in PartialMaps({"a", "b"}, ExtValues), r \in {"null", "routesObj"}}
InjectFuncs ==
  {[name |-> "f", params |-> ps, body |-> b] :
     ps \in DistinctSeqs(ParamNames, MaxParams), b \in {"ret", "throw"}}

\* The arguments of a wrapper call: k distinct positional values
ArgList(k) == [j \in 1..k |-> "x" \o ToString(j)]

PipelineRegistries ==
  {createInjectionComponents(e, [app |-> "appObj", routes |-> "null"]) :
     e \in {[a |-> "v_a"], [a |-> "v_a", done |-> "v_done"]}}
OrderUnits == {U("Umbrella", <<>>, "ret"), U("Umbrella", <<"x">>, "ret"),
               U("Umbrella", <<>>, "throw"), U("Umbrella", <<"$routes">>, "ret")}
Environments == {"production", "test", ""}
\* A descriptor may carry a `dependencies` property: none, a scalar or an
\* array.  Nothing in initializer.js reads it.
NoDependencies == [kind |-> "absent", vals |-> <<>>]
DependencyValues ==
  {NoDependencies, [kind |-> "scalar", vals |-> <<"d1">>],
   [kind |-> "array", vals |-> <<>>], [kind |-> "array", vals |-> <<"d1", "d2">>]}
DependenciesOf(descriptors) ==
  IF Len(descriptors) <= MaxDepSteps
    THEN [1..Len(descriptors) -> DependencyValues]
    ELSE {[k \in 1..Len(descriptors) |-> NoDependencies]}
Orders == UNION {[1..n -> Components] : n \in 0..MaxSteps}

\* The variables of the part of the program a specification leaves out
InjectorUnused ==
  /\ func = NoUnit /\ mustInvoke = FALSE /\ ipc = "unused" /\ result = NoResult
  /\ invocations = 0 /\ wrapperCalls = 0 /\ lastCall = NoCall /\ lastArgs = <<>>
  /\ lastReturn = [threw |-> FALSE, ret |-> NoCall, err |-> NoErr]
PipelineUnused ==
  /\ env = "test" /\ umbrellaInit = NoUnit /\ order = <<>> /\ dependencies = <<>>
  /\ onCompleteThrows = FALSE /\ pc = "unused" /\ initializers = <<>>
  /\ completed = 0 /\ finalNoop = FALSE /\ pending = {} /\ log = <<>>

NoGot == [name |-> "", threw |-> FALSE, val |-> NoVal, err |-> NoErr]
NoAsync == [asked |-> FALSE, isAsync |-> FALSE, warned |-> FALSE]
UtilUnused ==
  /\ external = <<>> /\ internal = <<>> /\ upc = "unused" /\ got = NoGot
  /\ ufunc = NoUnit /\ asyncOf = NoAsync

NoBuilt == [threw |-> FALSE, err |-> NoErr, object |-> <<>>, calls |-> <<>>]
BuilderUnused == tree = <<>> /\ bpc = "unused" /\ built = NoBuilt

NoDir == <<>>
NoLast == [op |-> "none", threw |-> FALSE, err |-> NoErr, at |-> "", dir |-> NoDir,
           cb |-> "",
           before |-> [internals |-> NoInternals, inject |-> NoInjector]]
NoExtracted == [asked |-> FALSE, threw |-> FALSE, val |-> <<>>]
NoProxy == [made |-> FALSE, object |-> "", func |-> NoUnit, args |-> <<>>]
HelpersUnused ==
  /\ declared = NoUnit /\ extracted = NoExtracted
  /\ proxyArguments = <<>> /\ proxy = NoProxy /\ proxied = <<>>
UmbrellaUnused ==
  /\ internals = NoInternals /\ userCallback = "none" /\ owner = "none" /\ last = NoLast
  /\ ulog = <<>> /\ HelpersUnused

(* ------------------ using the injector (SpecInject) ------------------- *)
InitInject ==
  /\ UmbrellaUnused
  /\ PipelineUnused
  /\ UtilUnused
  /\ BuilderUnused
  /\ components \in InjectRegistries
  /\ func \in InjectFuncs
  /\ mustInvoke \in BOOLEAN
  /\ ipc = "ready"
  /\ result = NoResult
  /\ invocations = 0
  /\ wrapperCalls = 0
  /\ lastCall = NoCall
  /\ lastArgs = <<>>
  /\ lastReturn = [threw |-> FALSE, ret |-> NoCall, err |-> NoErr]

\* inject(func, mustInvoke)
DoInject ==
  /\ ipc = "ready"
  /\ LET r == Inject(Context, components, func, mustInvoke) IN
     /\ result' = r
     /\ ipc' = IF r.kind = "throw" THEN "threw" ELSE "returned"
     /\ invocations' = IF r.called THEN invocations + 1 ELSE invocations
     /\ lastCall' = IF r.called THEN r.call ELSE lastCall
  /\ UNCHANGED <<components, func, mustInvoke, wrapperCalls, lastArgs, lastReturn, pvars, uvars, bvars, hvars, mvars>>

\* wrapper(x1, .., xk) on the wrapper inject returned
DoCallWrapper(k) ==
  /\ ipc = "returned"
  /\ result.kind = "wrapper"
  /\ wrapperCalls < MaxCalls
  /\ LET c == CallWrapper(result, ArgList(k)) IN
     /\ invocations' = invocations + 1
     /\ lastCall' = c.call
     /\ lastReturn' = [threw |-> c.threw, ret |-> c.ret, err |-> c.err]
  /\ lastArgs' = ArgList(k)
  /\ wrapperCalls' = wrapperCalls + 1
  /\ UNCHANGED <<components, func, mustInvoke, ipc, result, pvars, uvars, bvars, hvars, mvars>>

NextInject == DoInject \/ \E k \in 0..MaxArgs : DoCallWrapper(k)
SpecInject == InitInject /\ [][NextInject]_vars

(* --------------- running the initializer pipeline (Spec) -------------- *)
Init ==
  /\ UmbrellaUnused
  /\ InjectorUnused
  /\ UtilUnused
  /\ BuilderUnused
  /\ components \in PipelineRegistries
  /\ env \in Environments
  /\ umbrellaInit \in OrderUnits
  /\ order \in IF umbrellaInit = U("Umbrella", <<>>, "ret") THEN Orders ELSE {<<>>}
  /\ dependencies \in DependenciesOf(order)
  /\ onCompleteThrows \in BOOLEAN
  /\ pc = "idle"
  /\ initializers = <<>>
  /\ completed = 0
  /\ finalNoop = FALSE
  /\ pending = {}
  /\ log = <<>>

Machine == [completed |-> completed, finalNoop |-> finalNoop, pending |-> pending,
            log |-> log, exc |-> NoErr]

\* The end of a turn of the event loop: an exception still propagating
\* leaves the turn
Settle(m) ==
  /\ completed' = m.completed
  /\ finalNoop' = m.finalNoop
  /\ pending' = m.pending
  /\ log' = IF m.exc # NoErr THEN Append(m.log, Ev("escape", 0, m.exc, <<>>)) ELSE m.log

\* runInitializers(env, umbrellaInit, basePath, inject, onComplete)
RunInitializers ==
  /\ pc = "idle"
  /\ \E r \in {runInitializers(env, components, umbrellaInit, order,
                                 onCompleteThrows, Machine)} :
     /\ initializers' = r.fns
     /\ pc' = IF r.m.exc # NoErr THEN "threw" ELSE "returned"
     /\ Settle(r.m)
  /\ UNCHANGED <<components, ivars, uvars, bvars, hvars, mvars, env, umbrellaInit, order, dependencies,
                 onCompleteThrows>>

\* In a later turn the initializer of pending step i calls done(err)
DoneLater(i, failed) ==
  /\ i \in pending
  /\ \E m \in {StepCb(initializers, components, onCompleteThrows,
                        [Machine EXCEPT !.pending = @ \ {i}], i,
                        IF failed THEN Err("cb", initializers[i].name) ELSE NoErr)} :
       Settle(m)
  /\ UNCHANGED <<components, ivars, uvars, bvars, hvars, mvars, env, umbrellaInit, order, dependencies,
                 onCompleteThrows, pc,
                 initializers>>

Next == RunInitializers \/ \E i \in 1..MaxSteps, failed \in BOOLEAN : DoneLater(i, failed)
Spec == Init /\ [][Next]_vars

(* ------------- using lib/utilities.js directly (SpecUtil) ------------- *)
\* The user's components: any of a, '$app', '$routes', the '$' keys colliding
\* with internal ones; a property may hold undefined
UtilExtValues(n) == IF n = "a" THEN {"v_a"} ELSE {"u_" \o n, "null", "undefined"}
UtilExternals == PartialMaps({"a", "$app", "$routes"}, UtilExtValues)
UtilInternals == {[app |-> "appObj", routes |-> r] : r \in {"null", "routesObj"}}
UtilNames == {"a", "$app", "$routes", "b"}
UtilFuncs ==
  {[name |-> "f", params |-> ps, body |-> "ret"] :
     ps \in DistinctSeqs({"a", "b", "done"}, MaxParams)}
NoRegistry == [ext |-> <<>>, int |-> <<>>, threw |-> FALSE, err |-> NoErr]

InitUtil ==
  /\ UmbrellaUnused
  /\ InjectorUnused
  /\ PipelineUnused
  /\ BuilderUnused
  /\ components = NoRegistry
  /\ external \in UtilExternals
  /\ internal \in UtilInternals
  /\ upc = "ready"
  /\ got = NoGot
  /\ ufunc \in UtilFuncs
  /\ asyncOf = NoAsync

\* createInjectionComponents(external, internal)
CreateComponents ==
  /\ upc = "ready"
  /\ \E r \in {createInjectionComponents(external, internal)} :
       /\ upc' = IF r.threw THEN "threw" ELSE "created"
       /\ components' = IF r.threw THEN components ELSE r
  /\ UNCHANGED <<ivars, pvars, bvars, hvars, mvars, external, internal, got, ufunc, asyncOf>>

\* obj[name] on the object createInjectionComponents returned
ReadKey(name) ==
  /\ upc = "created"
  /\ \E g \in {RegGet(components, name)} :
       got' = [name |-> name, threw |-> g.threw, val |-> g.val, err |-> g.err]
  /\ UNCHANGED <<components, ivars, pvars, bvars, hvars, mvars, external, internal, upc, ufunc, asyncOf>>

\* determineAsync(ufunc)
DetermineAsync ==
  /\ ~asyncOf.asked
  /\ asyncOf' = [asked |-> TRUE, isAsync |-> determineAsync(ufunc),
                 warned |-> determineAsyncWarns(ufunc)]
  /\ UNCHANGED <<components, ivars, pvars, bvars, hvars, mvars, external, internal, upc, got, ufunc>>

NextUtil == CreateComponents \/ DetermineAsync \/ \E name \in UtilNames : ReadKey(name)
SpecUtil == InitUtil /\ [][NextUtil]_vars

(* --------------- building a directory object (SpecBuild) -------------- *)
\* The entries a directory may hold, in the order readdirSync lists them:
\* a sub-directory admin, admin.js, index.js, index.json, users.js
NoEntry == [name |-> <<>>, dir |-> FALSE, sub |-> <<>>, m |-> NoModule]
Listing(slots) == SelectSeq(slots, LAMBDA e : e.name # <<>>)
RECURSIVE Dirs(_)
Dirs(d) ==
  {Listing(<<ad, aj, ij, ijs, us>>) :
     ad \in {NoEntry} \cup (IF d > 0 THEN {Dir("admin", sub) : sub \in Dirs(d - 1)} ELSE {}),
     aj \in {NoEntry, File(<<"admin", "js">>, PlainMod("adminJs"))},
     ij \in {NoEntry, File(<<"index", "js">>, FnMod(U("index", <<"a">>, "ret")))},
     ijs \in {NoEntry, File(<<"index", "json">>, PlainMod("indexJson")),
              File(<<"index", "json">>, BadMod("indexJson"))},
     us \in {NoEntry, File(<<"users", "js">>, FnMod(U("users", <<"$routes">>, "ret"))),
             File(<<"users", "js">>, FnMod(U("usersW", <<"a", "req">>, "ret")))}}
BuildRegistries ==
  {createInjectionComponents([a |-> "v_a"], [app |-> "appObj", routes |-> r]) :
     r \in {"null", "routesObj"}}

InitBuild ==
  /\ UmbrellaUnused
  /\ InjectorUnused
  /\ PipelineUnused
  /\ UtilUnused
  /\ components \in BuildRegistries
  /\ tree \in Dirs(MaxDepth)
  /\ bpc = "ready"
  /\ built = NoBuilt

\* builder.buildAndProcess(path, inject)
Build ==
  /\ bpc = "ready"
  /\ \E r \in {buildAndProcess(Context, components, tree)} :
       /\ built' = r
       /\ bpc' = IF r.threw THEN "threw" ELSE "built"
  /\ UNCHANGED <<components, ivars, pvars, uvars, mvars, hvars, tree>>

NextBuild == Build
SpecBuild == InitBuild /\ [][NextBuild]_vars

(* ------------- the operations of umbrella (SpecUmbrella) -------------- *)
\* The components handed to bootstrap or all: an object, an object whose
\* '$app' holds undefined, or null
GoodComponents == [given |-> TRUE, obj |-> [k \in {"a"} |-> "v_a"]]
UserComponents ==
  {GoodComponents,
   [given |-> TRUE, obj |-> [k \in {"a", "$app"} |-> IF k = "a" THEN "v_a" ELSE "undefined"]],
   [given |-> FALSE, obj |-> [k \in {"a"} |-> "v_a"]]}
\* What config/initializers/Umbrella returns when init runs
UmbrellaOrders == {<<>>, <<"sThrow">>, <<"obj">>, <<"aLater">>, <<"aLater", "aThrow">>}
\* The arguments and files of a call of all: one thing at most is amiss
AllCalls ==
  {[comps |-> c, files |-> AllWell, order |-> <<>>] : c \in UserComponents} \cup
  {[comps |-> GoodComponents, files |-> f, order |-> <<>>] : f \in FileStates} \cup
  {[comps |-> GoodComponents, files |-> AllWell, order |-> o] : o \in UmbrellaOrders}
\* The files the init callback of all meets
LaterFiles == {f \in FileStates : f.middlewares = GoodDir /\ f.configure = "ok"}

InitUmbrella ==
  /\ HelpersUnused
  /\ InjectorUnused
  /\ UtilUnused
  /\ BuilderUnused
  /\ components = NoInjector
  /\ internals = NoInternals
  /\ userCallback = "none"
  /\ owner = "none"
  /\ last = NoLast
  /\ ulog = <<>>
  /\ env = "test"
  /\ umbrellaInit = U("Umbrella", <<>>, "ret")
  /\ order = <<>>
  /\ dependencies = <<>>
  /\ onCompleteThrows = FALSE
  /\ pc = "idle"
  /\ initializers = <<>>
  /\ completed = 0
  /\ finalNoop = FALSE
  /\ pending = {}
  /\ log = <<>>

\* ulog keeps what the call of all that started the pipeline has done, and
\* what the latest call has done when this is a call of all
Owned == SelectSeq(ulog, LAMBDA e : e.call # "other")
Umbrella(n) == [internals |-> internals, inject |-> components, ulog |-> Owned, call |-> n]
Before == [internals |-> internals, inject |-> components]
\* The end of a call of an operation, or of a turn
Finish(op, dir, cb, r) ==
  /\ internals' = r.u.internals
  /\ components' = r.u.inject
  /\ ulog' = r.u.ulog
  /\ last' = [op |-> op, threw |-> r.threw, err |-> r.err, at |-> r.at, dir |-> dir, cb |-> cb,
              before |-> Before]
PipelineUntouched ==
  UNCHANGED <<env, umbrellaInit, order, dependencies, onCompleteThrows, pc, initializers,
              completed, finalNoop, pending, log>>
\* init starts the pipeline: the producer returns the descriptors o
Started(o, cb, r) ==
  /\ userCallback' = cb
  /\ order' = o
  /\ dependencies' = [k \in 1..Len(o) |-> NoDependencies]
  /\ onCompleteThrows' = (cb = "throws")
  /\ initializers' = r.fns
  /\ pc' = IF r.m.exc # NoErr THEN "threw" ELSE "returned"
  /\ completed' = r.m.completed
  /\ finalNoop' = r.m.finalNoop
  /\ pending' = r.m.pending
  /\ log' = r.m.log
  /\ UNCHANGED <<env, umbrellaInit>>

\* umbrella.bootstrap(components)
Bootstrap(comps) ==
  /\ Finish("bootstrap", NoDir, "", bootstrap(Umbrella("init"), comps))
  /\ PipelineUntouched
  /\ UNCHANGED <<ivars, uvars, bvars, hvars, userCallback, owner>>

\* umbrella.buildMiddlewares()
BuildMiddlewares(dir) ==
  /\ \E r \in {buildMiddlewares(Umbrella("init"), dir)} :
       Finish("buildMiddlewares", dir, "", r)
  /\ PipelineUntouched
  /\ UNCHANGED <<ivars, uvars, bvars, hvars, userCallback, owner>>

\* umbrella.configure()
Configure(files) ==
  /\ Finish("configure", NoDir, "", configure(Umbrella("init"), files))
  /\ PipelineUntouched
  /\ UNCHANGED <<ivars, uvars, bvars, hvars, userCallback, owner>>

\* umbrella.init(initCallback).  The pipeline is followed for its first run.
InitOp(o) ==
  /\ pc = "idle"
  /\ IF internals.app = "null"
       THEN /\ Finish("init", NoDir, "",
                      Throw(Umbrella("init"), Err("notBootstrapped", "init"), "guard"))
            /\ PipelineUntouched
            /\ UNCHANGED <<owner, userCallback>>
     ELSE IF components.threw
       THEN /\ Finish("init", NoDir, "", Throw(Umbrella("init"), components.err, "pipeline"))
            /\ pc' = "threw"
            /\ UNCHANGED <<env, umbrellaInit, order, dependencies, onCompleteThrows,
                           initializers, completed, finalNoop, pending, log, owner,
                           userCallback>>
     ELSE \E r \in {runInitializers(env, components, umbrellaInit, o, FALSE, Machine)} :
          \E u \in {Completions(Umbrella("init"), "returns", AllWell, r.m.log, 1)} :
            /\ Finish("init", NoDir, "",
                      IF r.m.exc # NoErr THEN Throw(u, r.m.exc, "pipeline") ELSE Ret(u))
            /\ Started(o, "returns", r)
            /\ owner' = "init"
  /\ UNCHANGED <<ivars, uvars, bvars, hvars>>

\* umbrella.bootstrapModels()
BootstrapModels(files) ==
  /\ Finish("bootstrapModels", NoDir, "", bootstrapModels(Umbrella("init"), files))
  /\ PipelineUntouched
  /\ UNCHANGED <<ivars, uvars, bvars, hvars, userCallback, owner>>

\* umbrella.route()
Route(files) ==
  /\ \E r \in {route(Umbrella("init"), files)} : Finish("route", files.routes, "", r)
  /\ PipelineUntouched
  /\ UNCHANGED <<ivars, uvars, bvars, hvars, userCallback, owner>>

\* umbrella.listen()
Listen(files) ==
  /\ Finish("listen", NoDir, "", listen(Umbrella("init"), files))
  /\ PipelineUntouched
  /\ UNCHANGED <<ivars, uvars, bvars, hvars, userCallback, owner>>

\* umbrella.all(components, callback): the phases before init, init with
\* all's init callback, and the catch around them
All(c, cb) ==
  \E s \in {allPrelude(Umbrella("other"), c.comps, c.files)} :
    IF s.threw
      THEN /\ Finish("all", NoDir, cb, Callback(s.u, cb, s.err, "umbrellaObj"))
           /\ PipelineUntouched
           /\ UNCHANGED <<ivars, uvars, bvars, hvars, owner, userCallback>>
    ELSE
      \E s1 \in {allPrelude(Umbrella("all"), c.comps, c.files)} :
      \E r \in {runInitializers(env, s1.u.inject, umbrellaInit, c.order, cb = "throws",
                                 Machine)} :
      \E u \in {Completions(s1.u, cb, c.files, r.m.log, 1)} :
        /\ Finish("all", NoDir, cb,
                  IF r.m.exc # NoErr
                    THEN Callback(Phase("init", Throw(u, r.m.exc, "pipeline")).u,
                                  cb, r.m.exc, "umbrellaObj")
                    ELSE Ret(u))
        /\ Started(c.order, cb, r)
        /\ owner' = "all"
        /\ UNCHANGED <<ivars, uvars, bvars, hvars>>

\* In a later turn the initializer of pending step i calls done(err); an
\* exception still propagating at the end leaves the turn
Later(i, failed, files) ==
  /\ i \in pending
  /\ \E m \in {StepCb(initializers, components, onCompleteThrows,
                        [Machine EXCEPT !.pending = @ \ {i}], i,
                        IF failed THEN Err("cb", initializers[i].name) ELSE NoErr)} :
     \E u \in {Completions(Umbrella(owner), userCallback, files, m.log, Len(log) + 1)} :
       /\ Settle(m)
       /\ Finish("later", NoDir, "", IF m.exc # NoErr THEN Throw(u, m.exc, "turn") ELSE Ret(u))
  /\ UNCHANGED <<ivars, uvars, bvars, hvars, env, umbrellaInit, order, dependencies,
                 onCompleteThrows, pc, initializers, userCallback, owner>>

NextUmbrella ==
  \/ \E comps \in UserComponents : Bootstrap(comps)
  \/ \E dir \in UmbrellaDirs : BuildMiddlewares(dir)
  \/ \E files \in {AllWell, [AllWell EXCEPT !.configure = "throws"]} : Configure(files)
  \/ \E o \in UmbrellaOrders : InitOp(o)
  \/ \E files \in {AllWell, [AllWell EXCEPT !.models = "throws"]} : BootstrapModels(files)
  \/ \E files \in {f \in LaterFiles : f.models = "ok" /\ f.listen = "ok"} : Route(files)
  \/ \E files \in {AllWell, [AllWell EXCEPT !.listen = "throws"]} : Listen(files)
  \/ \E c \in AllCalls, cb \in {"none", "returns", "throws"} : All(c, cb)
  \/ \E i \in 1..MaxSteps, failed \in BOOLEAN, files \in LaterFiles : Later(i, failed, files)
SpecUmbrella == InitUmbrella /\ [][NextUmbrella]_vars

(* -------- getFunctionParameters on written functions (SpecParams) ----- *)
\* The functions handed to getFunctionParameters: anonymous or named, with
\* up to MaxParams parameters, written tightly, with blanks, or one
\* parameter per line
Layouts ==
  {[fname |-> n, lead |-> l, gap |-> g, style |-> st] :
     n \in {"", "f"}, l \in {<<>>, <<" ">>}, g \in {<<>>, <<" ">>},
     st \in {"tight", "spaced", "lines"}}
Declarations ==
  {[name |-> "f", params |-> ps, body |-> "ret", layout |-> l] :
     ps \in DistinctSeqs({"a", "b", "c"}, MaxParams), l \in Layouts}

InitParams ==
  /\ InjectorUnused
  /\ PipelineUnused
  /\ UtilUnused
  /\ BuilderUnused
  /\ internals = NoInternals /\ userCallback = "none" /\ owner = "none" /\ last = NoLast
  /\ ulog = <<>>
  /\ components = NoRegistry
  /\ declared \in Declarations
  /\ extracted = NoExtracted
  /\ proxyArguments = <<>> /\ proxy = NoProxy /\ proxied = <<>>

\* utilities.getFunctionParameters(declared)
GetFunctionParameters ==
  /\ ~extracted.asked
  /\ extracted' = IF getFunctionParametersThrows(declared)
                    THEN [asked |-> TRUE, threw |-> TRUE, val |-> <<>>]
                    ELSE [asked |-> TRUE, threw |-> FALSE,
                          val |-> getFunctionParameters(declared)]
  /\ UNCHANGED <<components, ivars, pvars, uvars, bvars, mvars, declared, proxyArguments,
                 proxy, proxied>>

NextParams == GetFunctionParameters
SpecParams == InitParams /\ [][NextParams]_vars

(* ------------------- using objectProxy (SpecProxy) -------------------- *)
ProxyObjects == {"obj", "other"}
ProxyFuncs == {U("f", <<>>, "ret"), U("f", <<"p", "q">>, "ret"), U("f", <<>>, "throw")}
\* The arguments of a call of the proxy: k values of the caller's own
CallArgs(k) == [j \in 1..k |-> "y" \o ToString(j)]

InitProxy ==
  /\ InjectorUnused
  /\ PipelineUnused
  /\ UtilUnused
  /\ BuilderUnused
  /\ internals = NoInternals /\ userCallback = "none" /\ owner = "none" /\ last = NoLast
  /\ ulog = <<>>
  /\ components = NoRegistry
  /\ declared = NoUnit
  /\ extracted = NoExtracted
  /\ proxyArguments \in {<<o, f>> \o ArgList(n) :
                           o \in ProxyObjects, f \in ProxyFuncs, n \in 0..MaxArgs}
  /\ proxy = NoProxy
  /\ proxied = <<>>

\* objectProxy(object, func, x1, .., xn)
ObjectProxy ==
  /\ ~proxy.made
  /\ proxy' = objectProxy(proxyArguments)
  /\ UNCHANGED <<components, ivars, pvars, uvars, bvars, mvars, declared, extracted,
                 proxyArguments, proxied>>

\* proxy(y1, .., yk)
CallProxy(k) ==
  /\ proxy.made
  /\ Len(proxied) < MaxCalls
  /\ proxied' = Append(proxied, [callArgs |-> CallArgs(k),
                                 invocations |-> proxyCall(proxy, CallArgs(k))])
  /\ UNCHANGED <<components, ivars, pvars, uvars, bvars, mvars, declared, extracted,
                 proxyArguments, proxy>>

NextProxy == ObjectProxy \/ \E k \in 0..MaxArgs : CallProxy(k)
SpecProxy == InitProxy /\ [][NextProxy]_vars

(* ===================== properties of the pipeline ===================== *)
Pos == 1..Len(log)
Is(p, e) == log[p].ev = e
Failed(p) == Is(p, "cb") /\ log[p].err # NoErr
FirstFailure(p) == Failed(p) /\ \A q \in 1..(p - 1) : ~Failed(q)
\* The steps started before position p, in the order they were started
RECURSIVE StartedBefore(_)
StartedBefore(p) ==
  IF p <= 1 THEN <<>>
  ELSE IF Is(p - 1, "start") THEN Append(StartedBefore(p - 1), log[p - 1].step)
  ELSE StartedBefore(p - 1)
Count(e) == Cardinality({p \in Pos : Is(p, e)})
UpTo(n) == [k \in 1..n |-> k]

\* C1: strict sequencing.  The steps are started in declared order, each at
\* most once; step i+1 is started only after the callback of step i has
\* fired without error; and when a step is started every step started
\* before it has had its callback fired (no two steps are in flight).
C1_StrictSequencing ==
  \A p \in Pos : Is(p, "start") =>
    /\ StartedBefore(p) = UpTo(log[p].step - 1)
    /\ \A j \in 1..(log[p].step - 1) :
         \E q \in 1..(p - 1) : Is(q, "cb") /\ log[q].step = j /\ log[q].err = NoErr
    /\ \A q \in 1..(p - 1) : Is(q, "start") =>
         \E r \in (q + 1)..(p - 1) : Is(r, "cb") /\ log[r].step = log[q].step

\* C1 witness: three steps have been started, the second an asynchronous
\* one that called back in a later turn
C1_Witness ==
  /\ Len(order) = 3 /\ order[2] = "aLater"
  /\ Count("start") = 3
  /\ pending = {}

C3_CompletesExactlyOnce ==
  (pc \in {"returned", "threw"} /\ pending = {} /\ Count("ordered") = 1
     /\ ~onCompleteThrows)
    => Count("final") = 1

\* C4: whenever the completion callback is fired with no error, every
\* descriptor's step has been started exactly once, in declared order, and
\* every step's callback has fired, none of them with an error.
C4_DoneOnlyAfterSuccess ==
  \A p \in Pos : (Is(p, "final") /\ log[p].err = NoErr) =>
    /\ StartedBefore(p) = UpTo(Len(order))
    /\ \A q \in 1..(p - 1) : ~Failed(q)
    /\ \A j \in 1..Len(order) :
         \E q \in 1..(p - 1) : Is(q, "cb") /\ log[q].step = j /\ log[q].err = NoErr

\* C4 witness: three steps, the completion callback fired without error
C4_Witness ==
  /\ Len(order) = 3
  /\ \E p \in Pos : Is(p, "final") /\ log[p].err = NoErr

\* C5: an exception raised in a synchronous step (by the initializer's body
\* or by the forced-invocation injection) is handed to that step's callback,
\* reaches the completion callback as the pipeline's error, and is not the
\* exception that leaves a turn.
SyncRaise(p) ==
  /\ Is(p, "raise") /\ log[p].step >= 1
  /\ ~determineAsync(initializers[log[p].step])
C5_SyncThrowCaught ==
  \A p \in Pos : SyncRaise(p) =>
    /\ p + 2 <= Len(log)
    /\ Is(p + 1, "cb") /\ log[p + 1].step = log[p].step /\ log[p + 1].err = log[p].err
    /\ Is(p + 2, "final") /\ log[p + 2].err = log[p].err
    /\ \A q \in Pos : Is(q, "escape") => log[q].err # log[p].err

\* C5 witness: the third step is synchronous and its body threw
C5_Witness ==
  \E p \in Pos : SyncRaise(p) /\ log[p].step = 3 /\ log[p].err.kind = "body"

\* C6: every failure of a step -- an exception raised while the step runs,
\* synchronous or asynchronous, or an error passed to its callback -- is
\* handed to that step's callback and reaches the completion callback.
C6_UniformFailure ==
  \A p \in Pos : (Is(p, "raise") /\ log[p].step >= 1) =>
    /\ p + 2 <= Len(log)
    /\ Is(p + 1, "cb") /\ log[p + 1].step = log[p].step /\ log[p + 1].err = log[p].err
    /\ Is(p + 2, "final") /\ log[p + 2].err = log[p].err

(* ===================== properties of the injector ===================== *)
Params == getFunctionParameters(func)
\* n is a key of the registry: an external component name or a '$'-prefixed
\* internal name
HasKey(n) == n \in DOMAIN components.ext \/ \E k \in DOMAIN components.int : Dollar(k) = n
\* What func itself returns for its latest invocation
OwnReturn == Apply(func, lastCall.this, lastCall.args).ret

\* C7: with parameter names [a, b, c] and a registry that contains a and b
\* but not c, inject(f, false) does not invoke f and returns a wrapper with
\* exParamLength 1; wrapper(x) invokes f once with (registry[a],
\* registry[b], x), receiver the context, and returns what f returns.
C7_GreedyPrefixPartial ==
  (Params = <<"a", "b", "c">> /\ HasKey("a") /\ HasKey("b") /\ ~HasKey("c")
     /\ ~mustInvoke /\ ipc # "ready") =>
    /\ ipc = "returned" /\ result.kind = "wrapper" /\ result.exParamLength = 1
    /\ invocations = wrapperCalls
    /\ (wrapperCalls > 0 /\ Len(lastArgs) = 1) =>
         /\ lastCall = [this |-> Context,
                        args |-> <<components.ext["a"], components.ext["b"], lastArgs[1]>>]
         /\ func.body = "ret" => (~lastReturn.threw /\ lastReturn.ret = OwnReturn)

\* C8: with parameters (x, d, y), d a registry key and x not, inject resolves
\* nothing and returns a wrapper with exParamLength 3 whose call passes the
\* three supplied arguments positionally.
C8_StopsAtFirstGap ==
  (Len(Params) = 3 /\ ~HasKey(Params[1]) /\ HasKey(Params[2])
     /\ ~mustInvoke /\ ipc # "ready") =>
    /\ ipc = "returned" /\ result.kind = "wrapper"
    /\ result.injectArgs = <<>> /\ result.exParamLength = 3
    /\ invocations = wrapperCalls
    /\ (wrapperCalls > 0 /\ Len(lastArgs) = 3) => lastCall.args = lastArgs

\* C9: when every parameter name is a registry key (no parameter at all
\* included), inject invokes the callable exactly once with the resolved
\* values in order and the context as receiver and returns what the callable
\* returns, whatever mustInvoke; no wrapper is produced.
C9_FullResolutionInvokes ==
  ((\A k \in 1..Len(Params) : HasKey(Params[k])) /\ ipc # "ready") =>
    /\ result.kind # "wrapper"
    /\ invocations = 1
    /\ lastCall = [this |-> Context,
                   args |-> [k \in 1..Len(Params) |-> RegGet(components, Params[k]).val]]
    /\ func.body = "ret" =>
         (ipc = "returned" /\ result.kind = "value" /\ result.val = OwnReturn)

\* C10: when the first of n >= 1 parameter names is not in the registry,
\* inject(f, false) resolves nothing and returns a wrapper with
\* exParamLength n; the wrapper called with n arguments calls f with exactly
\* those arguments and the context as receiver.
C10_NothingResolved ==
  (Len(Params) >= 1 /\ ~HasKey(Params[1]) /\ ~mustInvoke /\ ipc # "ready") =>
    /\ ipc = "returned" /\ result.kind = "wrapper"
    /\ result.injectArgs = <<>> /\ result.exParamLength = Len(Params)
    /\ invocations = wrapperCalls
    /\ (wrapperCalls > 0 /\ Len(lastArgs) = Len(Params)) =>
         lastCall = [this |-> Context, args |-> lastArgs]

\* The registry read of parameter k succeeds (no getter throws)
Readable(k) == ~RegGet(components, Params[k]).threw
\* Parameter k is the first one whose name is no registry key, and every
\* parameter before it is a key that can be read
FirstGap(k) ==
  /\ ~HasKey(Params[k])
  /\ \A j \in 1..(k - 1) : HasKey(Params[j]) /\ Readable(j)

\* C11: inject(f, true) on a callable with an unresolved parameter (a name
\* that is no registry key, after parameters that are readable keys) throws
\* the 'injection must invoke' error, does not invoke f and returns no
\* wrapper.
C11_MustInvokeRejects ==
  (mustInvoke /\ ipc # "ready" /\ \E k \in 1..Len(Params) : FirstGap(k)) =>
    /\ ipc = "threw" /\ result.kind = "throw" /\ result.err = Err("mustInvoke", "")
    /\ invocations = 0

\* The leading parameters that are keys of the external components
RECURSIVE ExtPrefix(_)
ExtPrefix(k) ==
  IF k < Len(Params) /\ Params[k + 1] \in DOMAIN components.ext
    THEN ExtPrefix(k + 1) ELSE k

\* C12: every external entry is resolvable whatever its value: the leading
\* parameters named after external keys are resolved to the stored values
\* (a wrapper carries all of them, in order), and when every parameter is
\* such a key the callable is invoked with the stored values.
C12_ExternalAlwaysResolvable ==
  (ipc # "ready" /\ ExtPrefix(0) >= 1) =>
    LET n == ExtPrefix(0)
        stored == [k \in 1..n |-> components.ext[Params[k]]]
    IN /\ result.kind = "wrapper" =>
            (Len(result.injectArgs) >= n /\ SubSeq(result.injectArgs, 1, n) = stored)
       /\ n = Len(Params) =>
            (result.called /\ result.call = [this |-> Context, args |-> stored])

\* An internal key whose slot is still unpopulated (and that no external
\* component shadows)
Unpopulated(name) ==
  /\ name \notin DOMAIN components.ext
  /\ \E k \in DOMAIN components.int : Dollar(k) = name /\ components.int[k] = "null"
\* The resolution loop reaches parameter k: every parameter before it was
\* read without exception and found truthy
LoopHits(k) ==
  \A j \in 1..(k - 1) : Readable(j) /\ Truthy(RegGet(components, Params[j]).val)

\* C13: reading a '$'-prefixed internal key whose slot is unpopulated throws
\* the 'accessed too early' error and yields no value; an inject call whose
\* resolution loop hits such a parameter throws that error to its caller,
\* does not invoke the callable and returns no wrapper.
C13_TooEarlyFails ==
  /\ \A k \in DOMAIN components.int : Unpopulated(Dollar(k)) =>
       LET g == RegGet(components, Dollar(k)) IN
       g.threw /\ g.err = Err("tooEarly", k)
  /\ \A k \in 1..Len(Params) :
       (ipc # "ready" /\ Unpopulated(Params[k]) /\ LoopHits(k)) =>
         /\ ipc = "threw" /\ result.kind = "throw"
         /\ result.err = RegGet(components, Params[k]).err
         /\ result.err.kind = "tooEarly"
         /\ ~result.called /\ invocations = 0 /\ wrapperCalls = 0

\* C13 witness: inject resolved a first parameter, then hit '$routes' while
\* the routes were not built yet
C13_Witness ==
  /\ ipc = "threw" /\ result.err = Err("tooEarly", "routes")
  /\ Len(Params) >= 2 /\ Params[2] = "$routes" /\ Params[1] = "a"

(* ===================== properties of the utilities ==================== *)
\* What the internal getter of key k does
InternalRead(k) ==
  IF internal[k] = "null"
    THEN [name |-> Dollar(k), threw |-> TRUE, val |-> NoVal, err |-> Err("tooEarly", k)]
    ELSE [name |-> Dollar(k), threw |-> FALSE, val |-> internal[k], err |-> NoErr]
\* The external components contain '$' + an internal name
Collision == \E k \in DOMAIN internal : Dollar(k) \in DOMAIN external

\* C14: when the external components contain a key equal to '$' + an
\* internal name, createInjectionComponents returns normally, a read of an
\* external key (the colliding one included) yields the external value, and
\* a read of an internal key that no external key shadows is the read of the
\* internal slot.
C14_MergePriority ==
  (Collision /\ upc # "ready") =>
    /\ upc = "created"
    /\ got.name \in DOMAIN external =>
         (~got.threw /\ got.val = external[got.name])
    /\ \A k \in DOMAIN internal :
         (got.name = Dollar(k) /\ got.name \notin DOMAIN external) =>
           got = InternalRead(k)

\* C20: determineAsync(f) is true exactly when f has a parameter and the
\* last one is named 'done', and it warns exactly when the result is false
\* and 'done' is among the parameters.
C20_AsyncClassification ==
  asyncOf.asked =>
    LET ps == ufunc.params IN
    /\ asyncOf.isAsync <=> (Len(ps) >= 1 /\ ps[Len(ps)] = "done")
    /\ asyncOf.warned <=> (~asyncOf.isAsync /\ \E i \in 1..Len(ps) : ps[i] = "done")

\* C20 witness: function(a, done, b) was classified synchronous, with the
\* warning
C20_Witness ==
  /\ asyncOf.asked /\ ufunc.params = <<"a", "done", "b">>
  /\ ~asyncOf.isAsync /\ asyncOf.warned

(* ============== properties of the pipeline's single steps ============= *)
\* The function of step i is classified asynchronous
AsyncStep(i) == determineAsync(initializers[i])
\* After injection exactly the trailing 'done' of step i's function is
\* unbound: every parameter before it is a registry key, 'done' is none
OnlyDoneUnbound(i) ==
  LET ps == initializers[i].params IN
  /\ \A j \in 1..(Len(ps) - 1) : HasKey(ps[j])
  /\ ~HasKey("done")
\* The initializer of step i was invoked before position p
InvokedBefore(i, p) == \E q \in 1..(p - 1) : Is(q, "invoke") /\ log[q].step = i

\* C15: an asynchronous step's initializer is invoked only when exactly its
\* trailing 'done' is unbound after injection, and then with the step
\* callback as last argument; with any other residual arity it is not
\* invoked and the step's callback gets a misconfiguration error; the
\* callback of an invoked asynchronous step carries what the initializer
\* passed to done.
C15_AsyncResidualArity ==
  /\ \A p \in Pos : (Is(p, "invoke") /\ AsyncStep(log[p].step)) =>
       /\ OnlyDoneUnbound(log[p].step)
       /\ Len(log[p].args) = Len(initializers[log[p].step].params)
       /\ log[p].args[Len(log[p].args)] = CallbackTok
  /\ \A p \in Pos : (Is(p, "start") /\ AsyncStep(log[p].step)
                       /\ ~OnlyDoneUnbound(log[p].step)) =>
       /\ p < Len(log) /\ Is(p + 1, "cb") /\ log[p + 1].step = log[p].step
       /\ log[p + 1].err.kind \in {"extraParams", "notInvokable"}
  /\ \A p \in Pos : (Is(p, "cb") /\ AsyncStep(log[p].step)
                       /\ InvokedBefore(log[p].step, p)) =>
       log[p].err \in {NoErr, Err("cb", initializers[log[p].step].name)}

\* What the claims say is selected for descriptor k: the variant of the
\* environment when the unit has it, otherwise the unit itself
Selected(k) ==
  LET module == Modules[order[k]]
      variant == IF env = "production" THEN module.production ELSE module.development
  IN IF variant.present THEN variant
     ELSE [present |-> TRUE, fn |-> module.fn, unit |-> module.unit]
\* The first descriptor whose selected value is not callable
FirstBad(k) == ~Selected(k).fn /\ \A j \in 1..(k - 1) : Selected(j).fn
Ran == pc \in {"returned", "threw"} /\ Count("ordered") = 1

\* C16: a descriptor whose selected value is not callable makes the run end
\* with the 'incomplete initializer' error naming that descriptor's
\* component: the error leaves runInitializers, no unit of that or a later
\* descriptor is invoked, no step is started, the completion callback never
\* reports success, and the descriptor is loaded once only.
C16_NotCallableIsFatal ==
  \A k \in 1..Len(order) : (Ran /\ FirstBad(k)) =>
    /\ pc = "threw"
    /\ log[Len(log)] = Ev("escape", 0, Err("incomplete", order[k]), <<>>)
    /\ \A p \in Pos : ~(Is(p, "invoke") /\ log[p].step >= k)
    /\ \A p \in Pos : ~(Is(p, "start") /\ log[p].step >= k)
    /\ \A p \in Pos : ~(Is(p, "final") /\ log[p].err = NoErr)
    /\ Cardinality({p \in Pos : Is(p, "load") /\ log[p].step = k}) = 1
    /\ pending = {}

\* C16 witness: the third descriptor's unit is a plain object
C16_Witness ==
  /\ Ran /\ Len(order) = 3 /\ FirstBad(3) /\ order[3] = "obj"

\* C17: descriptor i is loaded (its variant selected, its callability
\* checked) only after steps before i have completed without error
C17_LoadInsideRunning ==
  \A p \in Pos : Is(p, "load") =>
    \A j \in 1..(log[p].step - 1) :
      \E q \in 1..(p - 1) : Is(q, "cb") /\ log[q].step = j /\ log[q].err = NoErr

\* C17 as amended: the descriptors are loaded, their variants selected and
\* their callability checked one after another in declared order before
\* any step is started; loading ends at the first misconfigured descriptor
\* i, and then no step has been or will be started.
C17_LoadBeforeRunning ==
  /\ \A p \in Pos : Is(p, "load") =>
       /\ \A q \in 1..(p - 1) : ~Is(q, "start")
       /\ Cardinality({q \in 1..(p - 1) : Is(q, "load")}) = log[p].step - 1
  /\ \A k \in 1..Len(order) : (Ran /\ FirstBad(k)) =>
       (Count("load") = k /\ Count("start") = 0 /\ Count("invoke") = 0)
  /\ (Ran /\ \A k \in 1..Len(order) : Selected(k).fn) => Count("load") = Len(order)

\* C17 witness: of three descriptors the second is misconfigured; two were
\* loaded and the first one's step was not run
C17_Witness ==
  /\ Ran /\ Len(order) = 3 /\ order[1] = "sOk" /\ FirstBad(2)
  /\ Count("load") = 2 /\ Count("start") = 0

\* The producer is the one that resolves and returns
GoodProducer == umbrellaInit = U("Umbrella", <<>>, "ret")

\* C18: the ordering producer is injected first, with forced invocation;
\* when that throws (unresolved parameter: the must-invoke error; too-early
\* internal read; the producer's own exception) the exception leaves
\* runInitializers, nothing is loaded, no step is started and the
\* completion callback is not fired.
C18_ResolvingOrderAborts ==
  /\ (pc # "idle" /\ Len(log) >= 1) => (Is(1, "ordered") \/ (Is(1, "raise") /\ log[1].step = 0))
  /\ (pc # "idle" /\ ~GoodProducer) =>
       /\ pc = "threw" /\ initializers = <<>>
       /\ Len(log) = 2 /\ Is(1, "raise") /\ Is(2, "escape") /\ log[2].err = log[1].err
       /\ log[1].err.kind =
            (IF umbrellaInit.body = "throw" THEN "body"
             ELSE IF umbrellaInit.params = <<"$routes">> THEN "tooEarly" ELSE "mustInvoke")
  /\ (pc # "idle" /\ GoodProducer) => Is(1, "ordered")

\* C18 witness: a producer with an unresolved parameter made the run abort
C18_Witness ==
  /\ pc = "threw" /\ umbrellaInit.params = <<"x">>
  /\ Len(log) >= 1 /\ log[1].err.kind = "mustInvoke"

\* C19: with env "production" the production variant is selected when the
\* unit has one, otherwise the unit itself; with any other env the
\* development variant when the unit has one, otherwise the unit itself; the
\* other environment's variant is never selected.  The step functions are
\* made of the selected values, and the run stops at the first selected
\* value that is not callable.
C19_VariantSelection ==
  Ran =>
    /\ \A k \in 1..Len(initializers) :
         /\ Selected(k).fn /\ initializers[k] = Selected(k).unit
         /\ LET module == Modules[order[k]]
                other == IF env = "production" THEN module.development
                         ELSE module.production
            IN other.present => initializers[k] # other.unit
    /\ Len(initializers) < Len(order) => ~Selected(Len(initializers) + 1).fn

\* C19 witness: env is the empty string, the unit with both variants gave
\* its development variant and the unit with a production variant only gave
\* no callable value
C19_Witness ==
  /\ Ran /\ env = "" /\ Len(order) = 2 /\ order = <<"byEnv", "onlyP">>
  /\ Len(initializers) = 1 /\ initializers[1].name = "byEnvD"

(* ================ more properties of the pipeline's steps ============= *)
\* Step i's function names a parameter 'done' that is not its last one
MisplacedDone(i) ==
  LET ps == initializers[i].params IN
  /\ \E j \in 1..(Len(ps) - 1) : ps[j] = "done"
  /\ ps[Len(ps)] # "done"
\* Every parameter of step i's function resolves from the registry
AllResolve(i) ==
  \A j \in 1..Len(initializers[i].params) :
    LET g == RegGet(components, initializers[i].params[j]) IN
    HasKey(initializers[i].params[j]) /\ ~g.threw /\ Truthy(g.val)
\* The values injected for step i's parameters
Injected(i) ==
  [j \in 1..Len(initializers[i].params) |->
     RegGet(components, initializers[i].params[j]).val]
\* After the event at p the pipeline goes on with step i + 1, or completes
\* without error when i is the last step
GoesOnAfter(p, i) ==
  /\ p < Len(log)
  /\ IF i < Len(initializers)
       THEN Is(p + 1, "start") /\ log[p + 1].step = i + 1
       ELSE Is(p + 1, "final") /\ log[p + 1].err = NoErr

\* C21: a unit whose 'done' parameter is not the last one is run as a
\* synchronous step, and when its body does not throw its step completes
\* without error and the following step starts.
C21_MisplacedDoneHarmless ==
  \A p \in Pos : (Is(p, "start") /\ MisplacedDone(log[p].step)
                    /\ initializers[log[p].step].body = "ret") =>
    /\ p + 2 <= Len(log)
    /\ Is(p + 1, "invoke") /\ log[p + 1].step = log[p].step
    /\ Is(p + 2, "cb") /\ log[p + 2] = Ev("cb", log[p].step, NoErr, <<>>)
    /\ GoesOnAfter(p + 2, log[p].step)

\* Every asynchronous step that was started has had its callback fired
AsyncAllCalledBack ==
  \A p \in Pos : (Is(p, "start") /\ AsyncStep(log[p].step)) =>
    \E q \in (p + 1)..Len(log) : Is(q, "cb") /\ log[q].step = log[p].step

\* C23: once the ordering producer has returned its list, every synchronous
\* step has returned or thrown and every started asynchronous step has
\* called its callback, the completion callback has been fired; a run does
\* not end in any other way.
C23_EventuallyCompletes ==
  (pc \in {"returned", "threw"} /\ Count("ordered") = 1 /\ pending = {}
     /\ AsyncAllCalledBack)
    => Count("final") >= 1

\* C24: while a started asynchronous step holds its callback, no later step
\* has been started and the completion callback has not been fired; a step
\* of the pipeline is taken only by that callback.
C24_HungStepStalls ==
  \A i \in pending :
    /\ \A p \in Pos : Is(p, "start") => log[p].step <= i
    /\ \A p \in Pos : ~Is(p, "final")
    /\ \A p \in Pos : ~(Is(p, "cb") /\ log[p].step >= i)
    /\ \E p \in Pos : Is(p, "invoke") /\ log[p].step = i
                      /\ log[p].args[Len(log[p].args)] = CallbackTok

\* C24 witness: the second of three steps holds its callback
C24_Witness ==
  /\ Len(order) = 3 /\ pending = {2}

\* The extra arguments the claim derives from a descriptor's dependencies
ExtraArgs(d) == d.vals
\* q ends with the sequence t
EndsWith(q, t) == Len(q) >= Len(t) /\ SubSeq(q, Len(q) - Len(t) + 1, Len(q)) = t

KeyOf(e) == IF e.dir THEN FileName(e.name) ELSE BaseName(e.name)
\* What the claims store for a file: inject(value), invocation not forced,
\* for a function; the value itself otherwise
StoredFor(e) ==
  IF e.m.kind = "fn"
    THEN [NoStored EXCEPT !.t = "injected", !.id = e.m.id,
                          !.res = Inject(Context, components, e.m.unit, FALSE)]
    ELSE [NoStored EXCEPT !.t = "loaded", !.id = e.m.id]
\* object mirrors the directory entries
RECURSIVE Mirrors(_, _)
Mirrors(object, entries) ==
  /\ DOMAIN object = {KeyOf(entries[k]) : k \in 1..Len(entries)}
  /\ \A k \in 1..Len(entries) :
       LET e == entries[k] IN
       IF e.dir
         THEN object[KeyOf(e)].t = "object" /\ Mirrors(object[KeyOf(e)].o, e.sub)
         ELSE object[KeyOf(e)] = StoredFor(e)
\* The functions of a directory, in the order the build meets them
RECURSIVE Functions(_)
Functions(entries) ==
  IF entries = <<>> THEN <<>>
  ELSE LET e == entries[1] IN
       (IF e.dir THEN Functions(e.sub)
        ELSE IF e.m.kind = "fn" THEN <<e.m.id>> ELSE <<>>) \o Functions(Tail(entries))

\* C29: the built object mirrors the tree: every sub-directory is a nested
\* object under its own name, every file is under its base name without
\* extension, holding inject(value) (not forced) for a function and the
\* value as loaded otherwise; only functions are handed to the injector.
C29_MirrorsTheTree ==
  bpc = "built" =>
    /\ Mirrors(built.object, tree)
    /\ built.calls = Functions(tree)

(* ======================= properties of umbrella ======================= *)
\* What the call of all tagged t has done, in order
OfCall(t) == SelectSeq(ulog, LAMBDA e : e.call = t)
\* The callback of that call: of the latest call for "other"
CallbackOf(t) == IF t = "all" THEN userCallback ELSE last.cb
\* In q the phases `names` have each returned without error, in this order,
\* at positions from `from` on and before position k
RECURSIVE Follows(_, _, _, _)
Follows(q, names, from, k) ==
  IF names = <<>> THEN TRUE
  ELSE \E j \in from..(k - 1) :
         /\ q[j].ev = Head(names) /\ q[j].err = NoErr
         /\ Follows(q, Tail(names), j + 1, k)
BeforeListen ==
  <<"bootstrap", "buildMiddlewares", "configure", "pipeline", "bootstrapModels", "route">>
\* The errors the phases before listen have raised in call t: a phase that
\* threw, a pipeline that completed with an error, and, for the call that
\* started the pipeline, an exception the pipeline let out of a later turn
Raised(t, names) ==
  {e.err : e \in {OfCall(t)[k] : k \in 1..Len(OfCall(t))} \cap
             {e \in {OfCall(t)[k] : k \in 1..Len(OfCall(t))} :
                e.ev \in names /\ e.err # NoErr}} \cup
  (IF t = "all" /\ owner = "all"
     THEN {log[p].err : p \in {pp \in Pos : Is(pp, "escape")}} ELSE {})
Received(t, err) ==
  \E k \in 1..Len(OfCall(t)) :
    /\ OfCall(t)[k].ev = "callback" /\ OfCall(t)[k].err = err
    /\ OfCall(t)[k].arg = "umbrellaObj"
Listened(t) == \E k \in 1..Len(OfCall(t)) : OfCall(t)[k].ev = "listen"

\* C25: in a call of all, listen is invoked only after bootstrap,
\* buildMiddlewares, configure, the pipeline, bootstrapModels and route have
\* each completed without error, in that order; and when one of them fails
\* (the callback given returns), listen is never invoked and the callback
\* receives that error.
C25_ListenOnlyWhenReady ==
  \A t \in {"all", "other"} :
    /\ \A k \in 1..Len(OfCall(t)) :
         OfCall(t)[k].ev = "listen" => Follows(OfCall(t), BeforeListen, 1, k)
    /\ CallbackOf(t) = "returns" =>
         \A err \in Raised(t, {"bootstrap", "buildMiddlewares", "configure", "init",
                               "pipeline", "bootstrapModels", "route"}) :
           ~Listened(t) /\ Received(t, err)

\* C28: a call of all whose callback does not throw never throws to its
\* caller; with a callback that returns, every error a phase raises is
\* handed to the callback as first argument with the umbrella object as
\* second, and after a listen that returned the callback gets (null, umbrella).
C28_AllNeverThrows ==
  /\ (last.op = "all" /\ last.cb # "throws") => ~last.threw
  /\ \A t \in {"all", "other"} :
       CallbackOf(t) = "returns" =>
         /\ \A err \in Raised(t, {"bootstrap", "buildMiddlewares", "configure", "init",
                                  "pipeline", "bootstrapModels", "route", "listen"}) :
              Received(t, err)
         /\ \A k \in 1..Len(OfCall(t)) :
              (OfCall(t)[k].ev = "listen" /\ OfCall(t)[k].err = NoErr) =>
                /\ k < Len(OfCall(t))
                /\ OfCall(t)[k + 1] = UEv("callback", t, NoErr, "umbrellaObj")

\* C26: once a bootstrap has completed (the injector exists), a later call
\* of bootstrap, directly or through all, throws 'called multiple times' and
\* leaves every slot of internals and the injector as they were.
C26_RebootstrapRejected ==
  (last.op \in {"bootstrap", "all"} /\ ~last.before.inject.threw) =>
    /\ internals = last.before.internals
    /\ components = last.before.inject
    /\ last.op = "bootstrap" => last.threw /\ last.err = Err("multiple", "bootstrap")
    /\ last.op = "all" =>
         /\ OfCall("other") # <<>>
         /\ OfCall("other")[1] = UEv("bootstrap", "other", Err("multiple", "bootstrap"), "")
C26_Witness ==
  /\ last.op = "bootstrap" /\ ~last.before.inject.threw /\ last.threw
  /\ internals.middlewares # "null" /\ internals.routes # "null"

\* C27: whatever the operation or turn, a slot of internals that held a
\* value before it holds the same value after it.
C27_SlotsWriteOnce ==
  \A s \in Slots :
    last.before.internals[s] # "null" => internals[s] = last.before.internals[s]

\* Some entry of the directory, at any depth, fails to load or to inject
RECURSIVE Fails(_, _)
Fails(entries, obj) ==
  \E k \in 1..Len(entries) :
    LET e == entries[k] IN
    IF e.dir THEN Fails(e.sub, obj)
    ELSE \/ e.m.kind = "bad"
         \/ e.m.kind = "fn" /\ (obj.threw \/ Inject(Context, obj, e.m.unit, FALSE).kind = "throw")

\* C30: when an entry of the directory, at any depth, fails to load or to
\* inject, buildMiddlewares and route throw the build's error to their
\* caller and leave internals, the slot they assign included, as it was.
C30_BuildAllOrNothing ==
  (/\ last.op \in {"buildMiddlewares", "route"}
   /\ last.before.internals.app # "null"
   /\ Fails(last.dir, last.before.inject)) =>
    /\ last.threw /\ last.at = "build"
    /\ internals = last.before.internals
C30_Witness ==
  /\ last.op = "route" /\ last.threw /\ last.at = "build" /\ last.dir = BadDir
  /\ last.before.internals.routes # "null"
  /\ last.before.internals.middlewares # "null"

(* ================ properties of the helper functions ================== *)
\* C31: getFunctionParameters returns the declared parameter names in
\* declaration order, trimmed, as many as are declared, and the empty array
\* for a function without parameters.
C31_DeclaredParameters ==
  extracted.asked => ~extracted.threw /\ extracted.val = declared.params

\* C32: every call of the function objectProxy returned, whatever its own
\* arguments, invokes func exactly once, with `this` the object and with
\* the arguments x1..xn handed to objectProxy.
C32_ProxyInvokesOnce ==
  \A k \in 1..Len(proxied) :
    /\ Len(proxied[k].invocations) = 1
    /\ proxied[k].invocations[1].func = proxyArguments[2]
    /\ proxied[k].invocations[1].this = proxyArguments[1]
    /\ proxied[k].invocations[1].args = SubSeq(proxyArguments, 3, Len(proxyArguments))
C32_Witness ==
  /\ Len(proxied) = 2
  /\ proxied[1].callArgs = <<>> /\ Len(proxied[2].callArgs) = 2
  /\ Len(proxyArguments) = 4
  /\ proxied[2].invocations[1].threw

(* ================== more properties of umbrella ======================= *)
GuardedOps == {"buildMiddlewares", "configure", "init", "bootstrapModels", "route", "listen"}

\* C33: on an umbrella object on which bootstrap has not been called,
\* buildMiddlewares, configure, init, bootstrapModels, route and listen each
\* throw the 'has to be bootstrapped before' error of that operation and
\* leave every slot of internals null and the injector unset.
C33_LifecycleGuard ==
  (last.op \in GuardedOps /\ last.before.internals.app = "null") =>
    /\ last.threw /\ last.at = "guard" /\ last.err = Err("notBootstrapped", last.op)
    /\ internals = NoInternals
    /\ components = NoInjector
    /\ pc = "idle" /\ log = <<>>
C33_Witness ==
  /\ last.op = "route" /\ last.before.internals.app = "null"
  /\ last.threw /\ last.err = Err("notBootstrapped", "route")

(* ============== more properties of the pipeline's callbacks =========== *)
\* The positions at which the callback of step i has been invoked
CallbacksOf(i) == {p \in Pos : Is(p, "cb") /\ log[p].step = i}

\* C34: the callback of a step is invoked at most once, also when what runs
\* from inside it (the next step, the completion handler) throws; a step
\* that has called back without error is never called back again with an
\* error raised downstream.
C34_StepCallbackOnce ==
  \A i \in 1..Len(order) : Cardinality(CallbacksOf(i)) <= 1

\* C35: a step that reports 'async initializer not invokable with callback'
\* or 'cannot take additional parameters except done-callback' has not
\* executed the initializer's body.
C35_RejectedNeverInvoked ==
  \A p \in Pos :
    (Is(p, "cb") /\ log[p].err.kind \in {"notInvokable", "extraParams"}) =>
      ~InvokedBefore(log[p].step, p)

(* ============== more properties of umbrella, continued ================ *)
\* C36: bootstrap is atomic.  In every reachable state internals.app is
\* non-null exactly when the injector has been created; a bootstrap that
\* throws leaves the object not bootstrapped, and no guarded operation gets
\* past its guard while the injector is missing.
C36_BootstrapAtomic ==
  /\ (internals.app # "null") <=> ~components.threw
  /\ (last.op = "bootstrap" /\ last.threw /\ last.before.internals.app = "null") =>
       internals.app = "null"
  /\ (last.op \in GuardedOps /\ last.before.inject.threw) => last.at = "guard"

\* How many times the callback of call t has been invoked
Callbacks(t) == Len(SelectSeq(OfCall(t), LAMBDA e : e.ev = "callback"))
\* Call t has come to its end: one of the phases before init has thrown, or
\* the pipeline has thrown out of init, or it has reached all's init callback
Ended(t) ==
  \E k \in 1..Len(OfCall(t)) :
    \/ OfCall(t)[k].ev = "pipeline"
    \/ /\ OfCall(t)[k].ev \in {"bootstrap", "buildMiddlewares", "configure", "init"}
       /\ OfCall(t)[k].err # NoErr

\* C37: a call of all that was given a callback invokes it at most once, and
\* exactly once when the call has come to its end: never a second time with
\* an error raised after the first invocation, never not at all.
C37_AllCallsBackOnce ==
  \A t \in {"all", "other"} :
    CallbackOf(t) \in {"returns", "throws"} =>
      /\ Callbacks(t) <= 1
      /\ Ended(t) => Callbacks(t) = 1

(* ============== more properties of the injector ======================= *)
\* C38: inject resolves a parameter only when its name is a key that
\* createInjectionComponents defined on the registry.  Every value a wrapper
\* carries, and every argument of an invocation made by inject itself,
\* belongs to a parameter that is such a key: a name the registry merely
\* inherits (toString, constructor) is not resolved and ends the prefix.
C38_OnlyDefinedKeysResolve ==
  (ipc # "ready") =>
    /\ (result.kind = "wrapper") =>
         \A k \in 1..Len(result.injectArgs) : HasKey(Params[k])
    /\ result.called => \A k \in 1..Len(Params) : HasKey(Params[k])

(* ============== more properties of the builder ======================== *)
\* object has one key for each entry of the directory, at every level
RECURSIVE OneKeyEach(_, _)
OneKeyEach(object, entries) ==
  /\ Cardinality(DOMAIN object) = Len(entries)
  /\ \A k \in 1..Len(entries) :
       entries[k].dir =>
         /\ FileName(entries[k].name) \in DOMAIN object
         /\ object[FileName(entries[k].name)].t = "object"
         /\ OneKeyEach(object[FileName(entries[k].name)].o, entries[k].sub)

\* C39: the keys of the built object are unique: at every level the object
\* has as many keys as the directory has entries, so that no two entries
\* (index.js and index.json, a directory admin and a file admin.js) end up
\* under one key, the later silently replacing the earlier.
C39_KeysUnique ==
  bpc = "built" => OneKeyEach(built.object, tree)

=============================================================================
